---- MODULE Spec2Model ----
(***************************************************************************)
(* A model of diamond-types: the operation log and its merge               *)
(* (src/list/oplog_merge.rs, src/list/eq.rs), the list merge engine        *)
(* (src/listmerge/merge.rs) and the causal graph journal                   *)
(* (src/causalgraph/storage.rs).                                           *)
(*                                                                         *)
(* Local versions (LV) are 0-based in the code and index the log from 1    *)
(* here: LV k of the code is element k+1 of `ops`.  Sequence numbers keep  *)
(* the code's numbering (they start at 0).  The run-length encoded         *)
(* containers of the code are stored one entry per LV; the runs the code   *)
(* works with (graph entries, agent spans) are recomputed from the         *)
(* entries by the rule the code uses to extend a run.                      *)
(***************************************************************************)
EXTENDS Integers, Sequences, FiniteSets, TLC

\* ------------------------------------------------------------------------
\* Bounds
\* ------------------------------------------------------------------------
\* Largest number of operations one replica's log may hold.
MaxOps == 3

\* The same when only the causal graph is looked at.
MaxGraphOps == 4

\* Largest number of operations of the single oplog a branch merges from.
MaxEdits == 3

\* Largest number of operations of the graph plans are made over.
MaxPlanOps == 5

\* Longest base text, and longest run one agent types at the same place.
MaxBase == 2

MaxRun == 3

\* Largest number of versions the process assigns in its causal graph,
\* largest length of the journal file a save may start from, and the number
\* of times the journal is opened.
MaxEntries == 2

MaxFile == 36

MaxOpens == 3

\* Sizes of the journal are counted in cells, one cell for each fixed-width
\* or varint field: the size of a blit slot a new file gets, and the largest
\* the header may name.
CG_DEFAULT_BLIT_SIZE == 10

MAX_BLIT_SIZE == 16

\* Number of operations of each of two oplogs built apart.
MaxEqOps == 3

\* Greatest position of an operation of those oplogs.
MaxEqPos == 0

\* Number of operations of the graph subgraphs are taken of.
MaxSubOps == 5

\* Number of items inserted anywhere in a ContentTree; further items, up to
\* MaxTreeItems in all, are inserted at its end.  Every item has the length
\* ItemLen.
MaxSplices == 5

MaxTreeItems == 11

ItemLen == 2

\* The two replicas, and the agent name each one edits under.  Agent names
\* are listed in the order string comparison gives them.
Replicas == {1, 2}

AgentNames == <<"a", "b">>

OwnName(r) == AgentNames[r]

\* A comparison that never puts one name before another.
NameNever(x, y) == FALSE

\* my_name.cmp(&other_name) == Ordering::Less
NameLess(x, y) ==
    \E i, j \in 1..Len(AgentNames) :
        AgentNames[i] = x /\ AgentNames[j] = y /\ i < j

VARIABLES
    logs,       \* logs[r]: the ListOpLog of replica r
    last,       \* what the operation that produced this state did
    oplog,      \* one ListOpLog edited by several agents
    branch,     \* a ListBranch over oplog: its version and content
    typing,     \* what two agents typing at one place have typed so far
    planned,    \* the last merge plan made over oplog, and how it ran
    file,       \* the cells of the journal file
    cgs,        \* the CausalGraphStorage of the running process
    cg,         \* the CausalGraph of the running process
    durable,    \* what the blits written so far recorded, and the last event
    tree,       \* a ContentTree, the side index notify keeps, and the cursor
    sub,        \* the last subgraph taken of oplog's graph
    wmap        \* a WriteMap, the id chunk it writes to, and the last call

oplogVars == <<logs, last>>

docVars == <<oplog, branch, typing, planned>>

journalVars == <<file, cgs, cg, durable>>

structVars == <<tree, sub, wmap>>

vars ==
    <<logs, last, oplog, branch, typing, planned, file, cgs, cg, durable,
      tree, sub, wmap>>

\* ------------------------------------------------------------------------
\* Small helpers
\* ------------------------------------------------------------------------
Max(S) == CHOOSE x \in S : \A y \in S : y <= x

Min(S) == CHOOSE x \in S : \A y \in S : x <= y

RECURSIVE SortedSeq(_)
SortedSeq(S) ==
    IF S = {} THEN <<>> ELSE <<Min(S)>> \o SortedSeq(S \ {Min(S)})

\* ------------------------------------------------------------------------
\* The operation log: agent assignment, causal graph, operations
\* ------------------------------------------------------------------------
\* ListOpLog::new(): no agents, no operations, version = root.
EmptyLog == [names |-> <<>>, ops |-> <<>>, version |-> {}]

LVs(log) == 1..Len(log.ops)

\* client_data[agent].name of the agent that made LV lv.
NameOf(log, lv) == log.names[log.ops[lv].agent]

\* get_agent_id: the index of a name in client_data, 0 when absent.
AgentId(log, name) ==
    IF \E i \in 1..Len(log.names) : log.names[i] = name
    THEN CHOOSE i \in 1..Len(log.names) : log.names[i] = name
    ELSE 0

\* get_or_create_agent_id: appends the name when it is new.
GetOrCreateAgent(log, name) ==
    IF AgentId(log, name) # 0 THEN log
    ELSE [log EXCEPT !.names = Append(@, name)]

\* The LVs client_data[name].lv_for_seq maps sequence number seq to.
LvsOfId(log, name, seq) ==
    {l \in LVs(log) : NameOf(log, l) = name /\ log.ops[l].seq = seq}

\* try_crdt_id_to_time: the LV of (name, seq), 0 when the log has none.
\* A sequence number recorded twice resolves to its first record.
LvOf(log, name, seq) ==
    IF LvsOfId(log, name, seq) = {} THEN 0 ELSE Min(LvsOfId(log, name, seq))

\* The sequence numbers lv_for_seq of an agent covers.
KnownSeqs(log, name) ==
    {log.ops[l].seq : l \in {k \in LVs(log) : NameOf(log, k) = name}}

\* get_next_seq: the end of the last lv_for_seq entry.
NextSeq(log, name) ==
    IF KnownSeqs(log, name) = {} THEN 0 ELSE Max(KnownSeqs(log, name)) + 1

\* lv_for_seq.find_sparse(seq) on a sequence number that is absent: the
\* offset of seq into the gap that holds it.  The gap starts at the end of
\* the nearest entry below seq, or at 0.
FindSparseOffset(log, name, seq) ==
    LET below == {s + 1 : s \in {k \in KnownSeqs(log, name) : k < seq}}
    IN seq - (IF below = {} THEN 0 ELSE Max(below))

\* graph.entries.find_packed(lv).span.start: Graph::push extends the last
\* entry while each new LV has its predecessor as its only parent.
RECURSIVE TxnStart(_, _)
TxnStart(log, lv) ==
    IF lv > 1 /\ log.ops[lv].parents = {lv - 1}
    THEN TxnStart(log, lv - 1) ELSE lv

\* The versions at or below a frontier (the frontier's history).
RECURSIVE Anc(_, _)
Anc(log, F) ==
    IF F = {} THEN {}
    ELSE LET m == Max(F)
         IN {m} \cup Anc(log, (F \ {m}) \cup log.ops[m].parents)

\* find_dominators: the members of S no other member descends from.
Dominators(log, S) ==
    {v \in S : \A w \in S \ {v} : v \notin Anc(log, {w})}

\* Frontiers of the log: sets of pairwise concurrent versions.
Frontiers(log) ==
    {F \in SUBSET LVs(log) : Dominators(log, F) = F}

\* ------------------------------------------------------------------------
\* oplog_merge.rs: merging one oplog into another
\* ------------------------------------------------------------------------
\* The inner loop of to_merge for one graph entry of `other` that starts
\* at ts, walking down from ord.  Returns the LVs of `other` it pushes to
\* the result and whether the entry's parents are queued.
RECURSIVE ToMergeTxn(_, _, _, _)
ToMergeTxn(self, other, ts, ord) ==
    LET name == NameOf(other, ord)
        seq == other.ops[ord].seq
    IN IF LvsOfId(self, name, seq) # {}
       THEN [taken |-> {}, push |-> FALSE]
       ELSE LET id_start == ord - FindSparseOffset(self, name, seq)
            IN IF ts >= id_start
               THEN [taken |-> ts..ord, push |-> TRUE]
               ELSE LET rest == ToMergeTxn(self, other, ts, id_start - 1)
                    IN [taken |-> (id_start..ord) \cup rest.taken,
                        push |-> rest.push]

\* The outer loop of to_merge: a max-heap of versions of `other`.
RECURSIVE ToMergeLoop(_, _, _, _)
ToMergeLoop(self, other, queue, result) ==
    IF queue = {} THEN result
    ELSE LET ord == Max(queue)
             ts == TxnStart(other, ord)
             r == ToMergeTxn(self, other, ts, ord)
             rest == {x \in queue : x < ts}
         IN ToMergeLoop(self, other,
                rest \cup (IF r.push THEN other.ops[ts].parents ELSE {}),
                result \cup r.taken)

\* A merge that skips nothing: every LV of `other` is appended.
to_merge_all(self, other) == LVs(other)

\* CausalGraph::to_merge: the LVs of `other` to append to self.
to_merge(self, other) == ToMergeLoop(self, other, other.version, {})

\* The agent map built at the top of add_missing_operations_from.
RECURSIVE CreateAgents(_, _)
CreateAgents(log, names) ==
    IF names = <<>> THEN log
    ELSE CreateAgents(GetOrCreateAgent(log, Head(names)), Tail(names))

\* An append that keeps the parents as the LVs `other` knows them by.
AppendFromUnmapped(self, other, lv) ==
    LET o == other.ops[lv]
        rec == [agent |-> AgentId(self, NameOf(other, lv)), seq |-> o.seq,
                parents |-> o.parents, kind |-> o.kind, pos |-> o.pos]
    IN [self EXCEPT !.ops = Append(@, rec),
                    !.version = (@ \ o.parents) \cup {Len(self.ops) + 1}]

\* An append that adds the new LV to the version and removes nothing.
AppendFromKeepHeads(self, other, lv) ==
    LET o == other.ops[lv]
        ps == {LvOf(self, NameOf(other, p), other.ops[p].seq) :
                    p \in o.parents} \ {0}
        rec == [agent |-> AgentId(self, NameOf(other, lv)), seq |-> o.seq,
                parents |-> ps, kind |-> o.kind, pos |-> o.pos]
    IN [self EXCEPT !.ops = Append(@, rec),
                    !.version = @ \cup {Len(self.ops) + 1}]

\* One step of the append loop: push_op_internal,
\* assign_time_to_crdt_span, graph.push and version.advance_by_known_run
\* for the LV lv of `other`.  Each parent is renamed through its
\* (agent, seq) identity to the LV self knows it by.
AppendFrom(self, other, lv) ==
    LET o == other.ops[lv]
        ps == {LvOf(self, NameOf(other, p), other.ops[p].seq) :
                    p \in o.parents} \ {0}
        rec == [agent |-> AgentId(self, NameOf(other, lv)), seq |-> o.seq,
                parents |-> ps, kind |-> o.kind, pos |-> o.pos]
    IN [self EXCEPT !.ops = Append(@, rec),
                    !.version = (@ \ ps) \cup {Len(self.ops) + 1}]

RECURSIVE AppendAll(_, _, _)
AppendAll(self, other, lvs) ==
    IF lvs = <<>> THEN self
    ELSE AppendAll(AppendFrom(self, other, Head(lvs)), other, Tail(lvs))

\* Whether the append loop, run over lvs, meets a parent whose (agent, seq)
\* self does not know by then: crdt_id_to_time has no LV to give.
RECURSIVE MissingParent(_, _, _)
MissingParent(self, other, lvs) ==
    IF lvs = <<>> THEN FALSE
    ELSE \/ \E p \in other.ops[Head(lvs)].parents :
               LvOf(self, NameOf(other, p), other.ops[p].seq) = 0
         \/ MissingParent(AppendFrom(self, other, Head(lvs)), other,
                          Tail(lvs))

\* The sequence s back to front.
Reversed(s) == [i \in 1..Len(s) |-> s[Len(s) + 1 - i]]

\* A merge that walks the spans of to_merge as they were found, newest
\* first.
add_missing_newest_first(self, other) ==
    LET s1 == CreateAgents(self, other.names)
    IN AppendAll(s1, other, Reversed(SortedSeq(to_merge(s1, other))))

\* ListOpLog::add_missing_operations_from.
add_missing_operations_from(self, other) ==
    LET s1 == CreateAgents(self, other.names)
    IN AppendAll(s1, other, SortedSeq(to_merge(s1, other)))

\* ------------------------------------------------------------------------
\* eq.rs: equality of two oplogs up to agent numbering and LV order
\* ------------------------------------------------------------------------
\* The LV of `other` that holds the operation self stores at lv.
MapLv(self, other, lv) == LvOf(other, NameOf(self, lv), self.ops[lv].seq)

\* impl PartialEq for ListOpLog.
OplogEq(self, other) ==
    /\ Cardinality(self.version) = Cardinality(other.version)
    /\ \A i \in 1..Len(self.names) :
          IF AgentId(other, self.names[i]) # 0
          THEN NextSeq(other, self.names[i]) = NextSeq(self, self.names[i])
          ELSE KnownSeqs(self, self.names[i]) = {}
    /\ \A t \in self.version :
          /\ MapLv(self, other, t) # 0
          /\ MapLv(self, other, t) \in other.version
    /\ \A l \in LVs(self) :
          LET m == MapLv(self, other, l)
          IN /\ m # 0
             /\ other.ops[m].kind = self.ops[l].kind
             /\ other.ops[m].pos = self.ops[l].pos
             /\ \A p \in self.ops[l].parents : MapLv(self, other, p) # 0
             /\ other.ops[m].parents =
                    {MapLv(self, other, p) : p \in self.ops[l].parents}

\* ------------------------------------------------------------------------
\* listmerge/merge.rs: the tracker (M2Tracker)
\* ------------------------------------------------------------------------
\* An item of the range tree is one character:
\*   id  the LV that inserted it (underwater characters have ids below 0:
\*       UNDERWATER_START + k is written -(k + 1)),
\*   ol, or  origin_left and origin_right (NoId stands for usize::MAX),
\*   st  current_state: 0 NOT_INSERTED_YET, 1 INSERTED, 1 + n deleted n times,
\*   ed  end_state_ever_deleted.
\* A run of the code's tree is a sequence of items with consecutive ids,
\* each the origin_left of the next.
NoId == 0

\* Characters of the underwater run the model keeps: one more than any
\* document can hold, so a cursor always has an item to its right.
NumUnderwater == Max({MaxOps, MaxEdits, MaxBase + 2 * MaxRun}) + 1

\* CRDTSpan::new_underwater as set by M2Tracker::new and clear.
Underwater ==
    [k \in 1..NumUnderwater |->
        [id |-> 0 - k, ol |-> IF k = 1 THEN NoId ELSE 1 - k, or |-> NoId,
         st |-> 1, ed |-> FALSE]]

\* The index of the item with the given id.
IdxOf(items, id) == CHOOSE i \in 1..Len(items) : items[i].id = id

\* get_cursor_after(lv, false): the number of items left of the cursor.
get_cursor_after(items, lv) == IF lv = NoId THEN 0 ELSE IdxOf(items, lv)

\* get_cursor_before(lv); the code has no cursor for usize::MAX, which the
\* underwater run keeps from being asked for.
get_cursor_before(items, lv) ==
    IF lv = NoId THEN Len(items) ELSE IdxOf(items, lv) - 1

\* takes_up_space::<true> and ::<false>.
TakesCur(e) == e.st = 1

TakesEnd(e) == ~e.ed

\* mut_cursor_before_cur_pos(pos): the index of the item that holds the
\* character at position pos of the current document.
CurIdx(items, pos) ==
    CHOOSE i \in 1..Len(items) :
        /\ TakesCur(items[i])
        /\ Cardinality({j \in 1..(i - 1) : TakesCur(items[j])}) = pos

\* The end position (LenPair.end) of a cursor with c items to its left.
EndPos(items, c) == Cardinality({j \in 1..c : TakesEnd(items[j])})

\* The current document has a character at position pos.
HasCurPos(items, pos) ==
    Cardinality({j \in 1..Len(items) : TakesCur(items[j])}) > pos

\* Cursor::get_pos: the LenPair of a cursor with c items to its left.
get_pos(items, c) ==
    [cur |-> Cardinality({j \in 1..c : TakesCur(items[j])}),
     end |-> EndPos(items, c)]

\* cursor_pos after the scan steps over the item e.
PosAfter(cursor_pos, e) ==
    [cur |-> cursor_pos.cur + (IF TakesCur(e) THEN 1 ELSE 0),
     end |-> cursor_pos.end + (IF TakesEnd(e) THEN 1 ELSE 0)]

\* A scan that goes back to scan_cursor and leaves cursor_pos where the
\* scan stopped.
ScanEndKeepsPos(scanning, j, cursor_pos, scan_cursor, scan_pos) ==
    [cursor |-> IF scanning THEN scan_cursor ELSE j, pos |-> cursor_pos]

\* After the scan loop: a scan that ended while `scanning` goes back to
\* scan_cursor and scan_pos.
ScanEnd(scanning, j, cursor_pos, scan_cursor, scan_pos) ==
    IF scanning THEN [cursor |-> scan_cursor, pos |-> scan_pos]
    ELSE [cursor |-> j, pos |-> cursor_pos]

\* The scan loop of integrate.  j counts the items left of the cursor,
\* left is the cursor integrate was entered with, cursor_pos is the LenPair
\* the code carries along with the cursor.  Returns the cursor the item is
\* inserted at and the cursor_pos the code holds for it.
RECURSIVE IntegrateScan(_, _, _, _, _, _, _, _, _)
IntegrateScan(log, items, item, left, j, cursor_pos, scanning, scan_cursor, scan_pos) ==
    LET here == ScanEnd(scanning, j, cursor_pos, scan_cursor, scan_pos)
    IN IF j >= Len(items) THEN here
       ELSE LET other == items[j + 1]
                olc == get_cursor_after(items, other.ol)
                next_pos == PosAfter(cursor_pos, other)
            IN IF other.id = item.or THEN here
               ELSE IF olc < left THEN here
               ELSE IF olc > left
                    THEN IntegrateScan(log, items, item, left, j + 1,
                                       next_pos, scanning, scan_cursor,
                                       scan_pos)
               ELSE IF item.or = other.or
                    THEN LET my_name == NameOf(log, item.id)
                             other_name == NameOf(log, other.id)
                             ins_here ==
                                 IF my_name = other_name
                                 THEN log.ops[item.id].seq
                                        < log.ops[other.id].seq
                                 ELSE NameLess(my_name, other_name)
                         IN IF ins_here THEN here
                            ELSE IntegrateScan(log, items, item, left, j + 1,
                                               next_pos, FALSE, scan_cursor,
                                               scan_pos)
               ELSE IF get_cursor_before(items, other.or)
                          < get_cursor_before(items, item.or)
                    THEN IntegrateScan(log, items, item, left, j + 1,
                                       next_pos, TRUE,
                                       IF scanning THEN scan_cursor ELSE j,
                                       IF scanning THEN scan_pos
                                       ELSE cursor_pos)
               ELSE IntegrateScan(log, items, item, left, j + 1,
                                  next_pos, FALSE, scan_cursor, scan_pos)

\* An integrate that does not scan: the item goes where the cursor is.
integrate_at_cursor(log, items, item, cursor) == cursor

\* M2Tracker::integrate: the cursor the item goes to.
integrate(log, items, item, cursor) ==
    IntegrateScan(log, items, item, cursor, cursor, get_pos(items, cursor),
                  FALSE, cursor, get_pos(items, cursor)).cursor

\* M2Tracker::integrate: the value it returns, end_pos, for the cursor_pos
\* it was called with.
integrate_end_pos(log, items, item, cursor, cursor_pos) ==
    IntegrateScan(log, items, item, cursor, cursor, cursor_pos,
                  FALSE, cursor, cursor_pos).pos.end

InsertAt(s, c, e) == SubSeq(s, 1, c) \o <<e>> \o SubSeq(s, c + 1, Len(s))

\* origin_right of an insert whose cursor has c items to its left: the
\* next item that is not NOT_INSERTED_YET.
OriginRight(items, c) ==
    LET later == {j \in (c + 1)..Len(items) : items[j].st # 0}
    IN IF later = {} THEN NoId ELSE items[Min(later)].id

\* M2Tracker::apply, ListOpKind::Ins arm, for the one-character insert the
\* log holds at lv.  xf is the BaseMoved position: what integrate returns
\* for cursor_pos = LenPair::new(op.start(), end_pos).
ApplyIns(log, items, lv) ==
    LET pos == log.ops[lv].pos
        c == IF pos = 0 THEN 0 ELSE CurIdx(items, pos - 1)
        end_pos == IF pos = 0 THEN 0
                   ELSE EndPos(items, c - 1)
                          + (IF TakesEnd(items[c]) THEN 1 ELSE 0)
        item == [id |-> lv, ol |-> IF pos = 0 THEN NoId ELSE items[c].id,
                 or |-> OriginRight(items, c), st |-> 1, ed |-> FALSE]
        at == integrate(log, items, item, c)
    IN [items |-> InsertAt(items, at, item),
        xf |-> integrate_end_pos(log, items, item, c,
                                 [cur |-> pos, end |-> end_pos]),
        moved |-> TRUE, target |-> NoId]

\* A delete arm that never reports DeleteAlreadyHappened.
ApplyDelMoved(log, items, lv) ==
    LET i == CurIdx(items, log.ops[lv].pos)
        e == items[i]
    IN [items |-> [items EXCEPT ![i] = [e EXCEPT !.st = @ + 1, !.ed = TRUE]],
        xf |-> EndPos(items, i - 1), moved |-> TRUE, target |-> e.id]

\* M2Tracker::apply, ListOpKind::Del arm, for a one-character delete.
\* moved is FALSE for DeleteAlreadyHappened.
ApplyDel(log, items, lv) ==
    LET i == CurIdx(items, log.ops[lv].pos)
        e == items[i]
    IN [items |-> [items EXCEPT ![i] = [e EXCEPT !.st = @ + 1, !.ed = TRUE]],
        xf |-> EndPos(items, i - 1), moved |-> ~e.ed, target |-> e.id]

apply(log, items, lv) ==
    IF log.ops[lv].kind = "Ins" THEN ApplyIns(log, items, lv)
    ELSE ApplyDel(log, items, lv)

\* ------------------------------------------------------------------------
\* Moving the tracker through history
\* ------------------------------------------------------------------------
\* A tracker: the range tree (items), the delete markers of the index
\* (del, a set of [lv, target] pairs), the LVs applied since the last
\* clear (applied) and those of them the tracker currently stands on (cur).
NewTracker == [items |-> Underwater, del |-> {}, applied |-> {}, cur |-> {}]

\* The item an LV acts on: its own item for an insert, the marker's target
\* for a delete.
TargetOf(log, tr, lv) ==
    IF log.ops[lv].kind = "Ins" THEN lv
    ELSE (CHOOSE m \in tr.del : m.lv = lv).target

\* A retreat that takes the item back to NOT_INSERTED_YET whatever the
\* operation was.
retreat_to_start(log, tr, lv) ==
    LET i == IdxOf(tr.items, TargetOf(log, tr, lv))
    IN [tr EXCEPT !.items[i].st = 0, !.cur = @ \ {lv}]

\* retreat: INSERTED -> NOT_INSERTED_YET for an insert, one delete less for
\* a delete.
retreat(log, tr, lv) ==
    LET i == IdxOf(tr.items, TargetOf(log, tr, lv))
    IN [tr EXCEPT !.items[i].st = @ - 1, !.cur = @ \ {lv}]

\* advance: the inverse of retreat.
advance(log, tr, lv) ==
    LET i == IdxOf(tr.items, TargetOf(log, tr, lv))
    IN [tr EXCEPT !.items[i].st = @ + 1, !.cur = @ \cup {lv}]

RECURSIVE RetreatAll(_, _, _)
RetreatAll(log, tr, lvs) ==
    IF lvs = {} THEN tr
    ELSE RetreatAll(log, retreat(log, tr, Max(lvs)), lvs \ {Max(lvs)})

RECURSIVE AdvanceAll(_, _, _)
AdvanceAll(log, tr, lvs) ==
    IF lvs = {} THEN tr
    ELSE AdvanceAll(log, advance(log, tr, Min(lvs)), lvs \ {Min(lvs)})

\* The Retreat and Advance actions the plan issues before Apply(lv): the
\* tracker is moved to the parents of lv.
MoveTo(log, tr, lv) ==
    LET want == Anc(log, log.ops[lv].parents) \cap tr.applied
    IN AdvanceAll(log, RetreatAll(log, tr, tr.cur \ want), want \ tr.cur)

\* ------------------------------------------------------------------------
\* The conflict zone and the plan
\* ------------------------------------------------------------------------
\* find_conflicting: a max-heap of time points (frontiers), each flagged
\* "A" (only in a's history), "B" (only in b's) or "S" (shared).  The walk
\* ends when one time point is left; that is the common ancestor.
RECURSIVE FindConflictingLoop(_, _, _)
FindConflictingLoop(log, queue, zone) ==
    IF Cardinality({e.tp : e \in queue}) = 1
    THEN [common |-> (CHOOSE e \in queue : TRUE).tp, zone |-> zone]
    ELSE LET t == Max(UNION {e.tp : e \in queue})
             group == {e \in queue : t \in e.tp}
             flags == {e.flag : e \in group}
             flag == IF Cardinality(flags) = 1
                     THEN CHOOSE f \in flags : TRUE ELSE "S"
             shattered == UNION {{[tp |-> {x}, flag |-> e.flag] :
                                    x \in e.tp \ {t}} : e \in group}
         IN FindConflictingLoop(log,
                (queue \ group) \cup shattered
                    \cup {[tp |-> log.ops[t].parents, flag |-> flag]},
                zone \cup {[lv |-> t, flag |-> flag]})

find_conflicting(log, a, b) ==
    FindConflictingLoop(log, {[tp |-> a, flag |-> "A"],
                              [tp |-> b, flag |-> "B"]}, {})

\* An LV is on the critical path when every LV of the zone is in its
\* history or has it in its own.
CriticalPath(log, zoneLvs, lv) ==
    \A w \in zoneLvs : w \in Anc(log, {lv}) \/ lv \in Anc(log, {w})

\* ------------------------------------------------------------------------
\* The rope
\* ------------------------------------------------------------------------
\* The content an insert carries.  Every insert of the model carries its
\* own character, written <<agent name, seq>>; the text shows the names.
ContentOf(log, lv) == <<NameOf(log, lv), log.ops[lv].seq>>

Text(rope) == [i \in 1..Len(rope) |-> rope[i][1]]

RemoveAt(s, pos) == SubSeq(s, 1, pos) \o SubSeq(s, pos + 2, Len(s))

\* apply_op_to, after transpose_to(pos).
apply_op_to(log, rope, lv, pos) ==
    IF log.ops[lv].kind = "Ins" THEN InsertAt(rope, pos, ContentOf(log, lv))
    ELSE RemoveAt(rope, pos)

\* ------------------------------------------------------------------------
\* TransformedOpsIterRaw and merge_into
\* ------------------------------------------------------------------------
\* One plan step for lv.  m is [tr, rope, dirty, already, removed]: the
\* tracker, the rope, whether the tracker holds applied operations, the LVs
\* emitted as DeleteAlreadyHappened, and the deletes that went to the rope.
\* output is the iterator's `applying` flag (set by BeginOutput).
\*   FF(lv) when lv is on the critical path, after Clear if the tracker is
\*   dirty: the op goes to the rope as the log holds it.
\*   Otherwise Retreat/Advance to the parents of lv and Apply(lv).
PlanStep(log, m, lv, zoneLvs, output) ==
    IF output /\ CriticalPath(log, zoneLvs, lv)
    THEN [tr |-> IF m.dirty THEN NewTracker ELSE m.tr,
          rope |-> apply_op_to(log, m.rope, lv, log.ops[lv].pos),
          dirty |-> FALSE, already |-> m.already,
          removed |-> IF log.ops[lv].kind = "Del"
                      THEN m.removed \cup {lv} ELSE m.removed]
    ELSE LET t1 == MoveTo(log, m.tr, lv)
             r == apply(log, t1.items, lv)
             t2 == [items |-> r.items,
                    del |-> IF log.ops[lv].kind = "Del"
                            THEN t1.del \cup {[lv |-> lv, target |-> r.target]}
                            ELSE t1.del,
                    applied |-> t1.applied \cup {lv},
                    cur |-> t1.cur \cup {lv}]
         IN [tr |-> t2,
             rope |-> IF output /\ r.moved
                      THEN apply_op_to(log, m.rope, lv, r.xf) ELSE m.rope,
             dirty |-> TRUE,
             already |-> IF output /\ ~r.moved
                         THEN m.already \cup {lv} ELSE m.already,
             removed |-> IF output /\ r.moved /\ log.ops[lv].kind = "Del"
                         THEN m.removed \cup {lv} ELSE m.removed]

RECURSIVE RunPlan(_, _, _, _, _)
RunPlan(log, m, lvs, zoneLvs, output) ==
    IF lvs = <<>> THEN m
    ELSE RunPlan(log, PlanStep(log, m, Head(lvs), zoneLvs, output),
                 Tail(lvs), zoneLvs, output)

\* A merge that feeds the tracker nothing of what the rope already holds:
\* the operations to merge are transformed against each other only.
merge_into_unprepared(log, rope, from, merge_frontier) ==
    LET conflict == find_conflicting(log, from, merge_frontier)
        zoneLvs == {z.lv : z \in conflict.zone}
        out == {z.lv : z \in {y \in conflict.zone : y.flag = "B"}}
        m0 == [tr |-> NewTracker, rope |-> rope, dirty |-> FALSE,
               already |-> {}, removed |-> {}]
        m2 == RunPlan(log, m0, SortedSeq(out), zoneLvs, TRUE)
    IN [rope |-> m2.rope,
        frontier |-> Dominators(log, from \cup merge_frontier),
        already |-> m2.already, removed |-> m2.removed]

\* TextInfo::merge_into(into, cg, from, merge_frontier): the rope after the
\* merge, the frontier it returns, the LVs it discarded as
\* DeleteAlreadyHappened and the deletes it applied to the rope.
merge_into(log, rope, from, merge_frontier) ==
    LET conflict == find_conflicting(log, from, merge_frontier)
        zoneLvs == {z.lv : z \in conflict.zone}
        prep == {z.lv : z \in {y \in conflict.zone : y.flag # "B"}}
        out == {z.lv : z \in {y \in conflict.zone : y.flag = "B"}}
        m0 == [tr |-> NewTracker, rope |-> rope, dirty |-> FALSE,
               already |-> {}, removed |-> {}]
        m1 == RunPlan(log, m0, SortedSeq(prep), zoneLvs, FALSE)
        m2 == RunPlan(log, m1, SortedSeq(out), zoneLvs, TRUE)
    IN [rope |-> m2.rope,
        frontier |-> Dominators(log, from \cup merge_frontier),
        already |-> m2.already, removed |-> m2.removed]

\* The document at a version: a merge from the empty document at root.
Checkout(log, F) == merge_into(log, <<>>, {}, F).rope

\* ------------------------------------------------------------------------
\* listmerge2/merge1plan.rs: the conflict subgraph and the plan made of it
\* ------------------------------------------------------------------------
\* The ConflictSubgraph between the frontiers a and b: one entry per LV of
\* the conflict zone, newest first, below an entry with the empty span whose
\* parents are the heads of a and b.  Entries are numbered from 1 (index 0
\* of the code).  span is the LV an entry holds, 0 for the empty span;
\* parents are indexes, listed newest first or (asc = FALSE) oldest first.
IdxOfLv(lvs, lv) == 1 + Cardinality({x \in lvs : x > lv}) + 1

ParentIdxs(lvs, ps, asc) ==
    IF asc THEN SortedSeq({IdxOfLv(lvs, p) : p \in ps \cap lvs})
    ELSE Reversed(SortedSeq({IdxOfLv(lvs, p) : p \in ps \cap lvs}))

SubgraphOf(log, lvs, heads, asc) ==
    IF lvs = {} THEN <<>>
    ELSE <<[span |-> 0, parents |-> ParentIdxs(lvs, heads, asc)]>>
         \o [i \in 1..Cardinality(lvs) |->
               LET lv == Reversed(SortedSeq(lvs))[i]
               IN [span |-> lv,
                   parents |-> ParentIdxs(lvs, log.ops[lv].parents, asc)]]

make_conflict_graph_between(log, a, b, asc) ==
    SubgraphOf(log, {z.lv : z \in find_conflicting(log, a, b).zone},
               Dominators(log, a \cup b), asc)

\* The loop of prepare with critical_path set after the parents are
\* queued.
RECURSIVE PrepareLoopAfterPush(_, _, _)
PrepareLoopAfterPush(g, queue, crit) ==
    IF \A i \in 1..Len(g) : queue[i] = 0 THEN crit
    ELSE LET idx == Min({i \in 1..Len(g) : queue[i] > 0})
             ps == {g[idx].parents[k] : k \in 1..Len(g[idx].parents)}
         IN PrepareLoopAfterPush(g,
                [i \in 1..Len(g) |->
                    queue[i] - (IF i = idx THEN 1 ELSE 0)
                             + (IF i \in ps THEN 1 ELSE 0)],
                [crit EXCEPT ![idx] =
                    /\ ps = {}
                    /\ \A i \in 1..Len(g) :
                          queue[i] = (IF i = idx THEN 1 ELSE 0)])

\* The loop of prepare: a min-heap of indexes, kept as the number of times
\* each index is queued.  critical_path of an entry is whether the heap was
\* empty when the entry was last popped.
RECURSIVE PrepareLoop(_, _, _)
PrepareLoop(g, queue, crit) ==
    IF \A i \in 1..Len(g) : queue[i] = 0 THEN crit
    ELSE LET idx == Min({i \in 1..Len(g) : queue[i] > 0})
             ps == {g[idx].parents[k] : k \in 1..Len(g[idx].parents)}
         IN PrepareLoop(g,
                [i \in 1..Len(g) |->
                    queue[i] - (IF i = idx THEN 1 ELSE 0)
                             + (IF i \in ps THEN 1 ELSE 0)],
                [crit EXCEPT ![idx] =
                    \A i \in 1..Len(g) : queue[i] = (IF i = idx THEN 1 ELSE 0)])

\* A subgraph on which prepare was not run: critical_path is false
\* everywhere (M1EntryState::default).
unprepared(g) == [i \in 1..Len(g) |-> FALSE]

\* ConflictSubgraph::prepare: critical_path of every entry.
prepare(g) ==
    IF g = <<>> THEN <<>>
    ELSE PrepareLoop(g, [i \in 1..Len(g) |-> IF i = 1 THEN 1 ELSE 0],
                     [i \in 1..Len(g) |-> FALSE])

\* The loop of diff_trace.  The heap holds (index, flag) pairs; all pairs
\* of the smallest index are popped together, and their flags merge to
\* "S" (Shared) unless they agree.  out collects the spans visited with
\* flag "A" (retreats) and "B" (advances), in the order visited.
RECURSIVE DiffLoop(_, _, _)
DiffLoop(g, queue, out) ==
    IF queue = {} THEN out
    ELSE LET idx == Min({e.idx : e \in queue})
             group == {e \in queue : e.idx = idx}
             flag == IF Cardinality({e.flag : e \in group}) = 1
                     THEN (CHOOSE e \in group : TRUE).flag ELSE "S"
             next == (queue \ group)
                        \cup {[idx |-> g[idx].parents[k], flag |-> flag] :
                                 k \in 1..Len(g[idx].parents)}
             out1 == IF g[idx].span = 0 \/ flag = "S" THEN out
                     ELSE IF flag = "A"
                          THEN [out EXCEPT !.retreats = Append(@, g[idx].span)]
                          ELSE [out EXCEPT !.advances = Append(@, g[idx].span)]
         IN IF \A e \in next : e.flag = "S" THEN out1
            ELSE DiffLoop(g, next, out1)

\* A diff_trace that finds nothing to retreat and nothing to advance.
diff_trace_nothing(g, from_idx, after, to_idx) ==
    [retreats |-> <<>>, advances |-> <<>>]

\* ConflictSubgraph::diff_trace(from_idx, after, to_idx).
diff_trace(g, from_idx, after, to_idx) ==
    DiffLoop(g,
        (IF after THEN {[idx |-> from_idx, flag |-> "A"]}
         ELSE {[idx |-> g[from_idx].parents[k], flag |-> "A"] :
                  k \in 1..Len(g[from_idx].parents)})
        \cup {[idx |-> g[to_idx].parents[k], flag |-> "B"] :
                 k \in 1..Len(g[to_idx].parents)},
        [retreats |-> <<>>, advances |-> <<>>])

\* The same actions with the advances in the order diff_trace met them,
\* newest first.
ActionsForUnreversed(g, crit, st, idx) ==
    LET d == diff_trace(g, st.last_idx, st.last_after, idx)
    IN [k \in 1..Len(d.retreats) |->
            [kind |-> "Retreat", lv |-> d.retreats[k]]]
       \o [k \in 1..Len(d.advances) |->
            [kind |-> "Advance", lv |-> d.advances[k]]]
       \o (IF crit[idx] /\ st.dirty THEN <<[kind |-> "Clear", lv |-> 0]>>
           ELSE <<>>)
       \o <<[kind |-> IF crit[idx] THEN "FF" ELSE "Apply",
             lv |-> g[idx].span]>>

\* The same actions with no Clear before an FF on a dirty tracker.
ActionsForNoClear(g, crit, st, idx) ==
    LET d == diff_trace(g, st.last_idx, st.last_after, idx)
    IN [k \in 1..Len(d.retreats) |->
            [kind |-> "Retreat", lv |-> d.retreats[k]]]
       \o [k \in 1..Len(d.advances) |->
            [kind |-> "Advance", lv |-> Reversed(d.advances)[k]]]
       \o <<[kind |-> IF crit[idx] THEN "FF" ELSE "Apply",
             lv |-> g[idx].span]>>

\* The actions make_m1_plan pushes when it processes entry idx, whose span
\* is not empty: retreats, advances (reversed), then FF after Clear if the
\* tracker is dirty, or Apply.
ActionsFor(g, crit, st, idx) ==
    LET d == diff_trace(g, st.last_idx, st.last_after, idx)
    IN [k \in 1..Len(d.retreats) |->
            [kind |-> "Retreat", lv |-> d.retreats[k]]]
       \o [k \in 1..Len(d.advances) |->
            [kind |-> "Advance", lv |-> Reversed(d.advances)[k]]]
       \o (IF crit[idx] /\ st.dirty THEN <<[kind |-> "Clear", lv |-> 0]>>
           ELSE <<>>)
       \o <<[kind |-> IF crit[idx] THEN "FF" ELSE "Apply",
             lv |-> g[idx].span]>>

\* The 'outer loop of make_m1_plan.  st holds current_idx (cur), the stack,
\* state.next and state.visited of every entry, last_processed_idx and
\* last_processed_after, dirty, the actions and nonempty_spans_remaining.
RECURSIVE PlanLoop(_, _, _)
PlanLoop(g, crit, st) ==
    LET e == g[st.cur]
        unvisited == {k \in (st.next[st.cur] + 1)..Len(e.parents) :
                         ~st.visited[e.parents[k]]}
    IN IF st.visited[st.cur] THEN [st EXCEPT !.err = "panic"]
       ELSE IF unvisited # {}
       THEN PlanLoop(g, crit,
                [st EXCEPT !.next[st.cur] = Min(unvisited),
                           !.stack = Append(@, st.cur),
                           !.cur = e.parents[Min(unvisited)]])
       ELSE LET v1 == [st EXCEPT !.next[st.cur] = Len(e.parents),
                                 !.visited[st.cur] = TRUE]
                v2 == IF e.span = 0 THEN v1
                      ELSE [v1 EXCEPT
                              !.actions = @ \o ActionsFor(g, crit, st, st.cur),
                              !.dirty = ~crit[st.cur],
                              !.remaining = @ - 1,
                              !.last_after = TRUE,
                              !.last_idx = st.cur]
            IN IF e.span # 0 /\ v2.remaining = 0 THEN v2
               ELSE IF v2.stack = <<>> THEN [v2 EXCEPT !.err = "panic"]
               ELSE PlanLoop(g, crit,
                        [v2 EXCEPT !.cur = v2.stack[Len(v2.stack)],
                                   !.stack = SubSeq(@, 1, Len(@) - 1)])

\* A make_m1_plan that waits for one span more than the subgraph holds.
make_m1_plan_late(g, crit) ==
    IF g = <<>> THEN [actions |-> <<>>, err |-> ""]
    ELSE LET r == PlanLoop(g, crit,
                    [cur |-> 1, stack |-> <<>>,
                     next |-> [i \in 1..Len(g) |-> 0],
                     visited |-> [i \in 1..Len(g) |-> FALSE],
                     last_idx |-> Len(g), last_after |-> FALSE,
                     dirty |-> FALSE, actions |-> <<>>,
                     remaining |->
                         Cardinality({i \in 1..Len(g) : g[i].span # 0}) + 1,
                     err |-> ""])
         IN [actions |-> r.actions, err |-> r.err]

\* A make_m1_plan that counts the empty span among the spans to process,
\* and so stops one span early.
make_m1_plan_early(g, crit) ==
    IF g = <<>> THEN [actions |-> <<>>, err |-> ""]
    ELSE LET r == PlanLoop(g, crit,
                    [cur |-> 1, stack |-> <<>>,
                     next |-> [i \in 1..Len(g) |-> 0],
                     visited |-> [i \in 1..Len(g) |-> FALSE],
                     last_idx |-> Len(g), last_after |-> FALSE,
                     dirty |-> FALSE, actions |-> <<>>,
                     remaining |->
                         Cardinality({i \in 1..Len(g) : g[i].span # 0}) - 1,
                     err |-> ""])
         IN [actions |-> r.actions, err |-> r.err]

\* ConflictSubgraph::make_m1_plan, on a subgraph whose critical_path flags
\* are crit: the actions, and "panic" if it did not return.
make_m1_plan(g, crit) ==
    IF g = <<>> THEN [actions |-> <<>>, err |-> ""]
    ELSE LET r == PlanLoop(g, crit,
                    [cur |-> 1, stack |-> <<>>,
                     next |-> [i \in 1..Len(g) |-> 0],
                     visited |-> [i \in 1..Len(g) |-> FALSE],
                     last_idx |-> Len(g), last_after |-> FALSE,
                     dirty |-> FALSE, actions |-> <<>>,
                     remaining |->
                         Cardinality({i \in 1..Len(g) : g[i].span # 0}),
                     err |-> ""])
         IN [actions |-> r.actions, err |-> r.err]

\* Frontier::retreat by one LV: the LV leaves the frontier and those of its
\* parents the rest does not reach take its place.
FrontierRetreat(log, f, lv) ==
    (f \ {lv}) \cup {p \in log.ops[lv].parents : p \notin Anc(log, f \ {lv})}

\* One action of the plan as dbg_check follows it.  s holds the frontiers
\* current and max and, for every action so far, what dbg_check looks at
\* when it meets the action: whether the LV is in the history of max
\* (applied) and of current (inCurrent), whether it is a member of current
\* (atEnd), whether its parents are exactly current (atParents) and
\* whether they are all in the history of current (parentsIn).
PlanRunStep(log, s, act) ==
    IF act.kind = "Clear" THEN s
    ELSE LET ps == log.ops[act.lv].parents
             seen == [kind |-> act.kind, lv |-> act.lv,
                      applied |-> act.lv \in Anc(log, s.max),
                      inCurrent |-> act.lv \in Anc(log, s.current),
                      atEnd |-> act.lv \in s.current,
                      atParents |-> ps = s.current,
                      parentsIn |-> ps \subseteq Anc(log, s.current)]
         IN [current |->
                IF act.kind = "Retreat"
                THEN FrontierRetreat(log, s.current, act.lv)
                ELSE (s.current \ ps) \cup {act.lv},
             max |-> IF act.kind \in {"Apply", "FF"}
                     THEN (s.max \ ps) \cup {act.lv} ELSE s.max,
             seen |-> Append(s.seen, seen)]

RECURSIVE PlanRun(_, _, _)
PlanRun(log, s, actions) ==
    IF actions = <<>> THEN s
    ELSE PlanRun(log, PlanRunStep(log, s, Head(actions)), Tail(actions))

\* M1Plan::dbg_check(a, b, graph): the plan is followed from the common
\* ancestor of a and b.
dbg_check(log, actions, a, b) ==
    PlanRun(log, [current |-> find_conflicting(log, a, b).common,
                  max |-> find_conflicting(log, a, b).common,
                  seen |-> <<>>], actions)

\* ------------------------------------------------------------------------
\* causalgraph/graph/subgraph.rs: subgraphs and projected frontiers
\* ------------------------------------------------------------------------
\* A span is [start |-> s, end |-> e], the LVs s..e - 1.  A filter is given
\* by the set of the LVs it allows; a list of LVs is a sequence.
Range(s) == {s[i] : i \in 1..Len(s)}

\* Filter::new: the filter spans from the last to the first, touching
\* spans merged (merge_spans_rev).
RECURSIVE FilterRuns(_)
FilterRuns(S) ==
    IF S = {} THEN <<>>
    ELSE LET m == Max(S)
             start == Min({x \in S : \A y \in x..m : y \in S})
         IN <<[start |-> start, end |-> m + 1]>>
                \o FilterRuns({x \in S : x < start})

\* Filter::scan_until_start_below: filter_iter.current is runs[k], None
\* when k is past the end.
RECURSIVE scan_until_start_below(_, _, _)
scan_until_start_below(runs, k, v) ==
    IF k <= Len(runs) /\ runs[k].start > v
    THEN scan_until_start_below(runs, k + 1, v) ELSE k

push_light_dedup(f, new_item) ==
    IF f # <<>> /\ f[Len(f)] = new_item THEN f ELSE Append(f, new_item)

\* The derived order of SmallVec<usize>: lexicographic.
RECURSIVE SeqLess(_, _)
SeqLess(a, b) ==
    IF b = <<>> THEN FALSE
    ELSE IF a = <<>> THEN TRUE
    ELSE IF Head(a) # Head(b) THEN Head(a) < Head(b)
    ELSE SeqLess(Tail(a), Tail(b))

\* The derived order of QueueEntry: target_parent, child_indexes, then
\* entry_in_frontier.
EntryLess(a, b) ==
    IF a.target_parent # b.target_parent
    THEN a.target_parent < b.target_parent
    ELSE IF a.child_indexes # b.child_indexes
    THEN SeqLess(a.child_indexes, b.child_indexes)
    ELSE ~a.entry_in_frontier /\ b.entry_in_frontier

\* BinaryHeap::peek / pop: the place of a greatest entry of the queue.
PeekIdx(q) == CHOOSE i \in 1..Len(q) : \A j \in 1..Len(q) : ~EntryLess(q[i], q[j])

Without(q, i) == SubSeq(q, 1, i - 1) \o SubSeq(q, i + 1, Len(q))

\* child_indexes with those of `more` it does not contain pushed.
RECURSIVE PushMissing(_, _)
PushMissing(child_indexes, more) ==
    IF more = <<>> THEN child_indexes
    ELSE PushMissing(IF Head(more) \in Range(child_indexes)
                     THEN child_indexes
                     ELSE Append(child_indexes, Head(more)),
                     Tail(more))

\* One queue entry for each of the parents ps.
QueueEntries(ps, child_indexes, in_frontier) ==
    [i \in 1..Cardinality(ps) |->
        [target_parent |-> SortedSeq(ps)[i], child_indexes |-> child_indexes,
         entry_in_frontier |-> in_frontier]]

\* update_parents: st holds result_rev and the filtered frontier.
update_parents(st, entry, p) ==
    [st EXCEPT
        !.frontier = IF entry.entry_in_frontier
                     THEN push_light_dedup(@, p) ELSE @,
        !.result_rev =
            [i \in 1..Len(@) |->
                IF i \in Range(entry.child_indexes)
                THEN [@[i] EXCEPT !.parents = push_light_dedup(@, p)]
                ELSE @[i]]]

\* Case 1, the loop over the queue: the entries within this txn and this
\* filter span are pulled out.  st.child_indexes collects their indexes.
RECURSIVE PullWithin(_, _, _)
PullWithin(st, base, filter_end) ==
    IF st.queue = <<>> \/ st.queue[PeekIdx(st.queue)].target_parent < base
    THEN st
    ELSE PullWithin(
            [update_parents(st, st.queue[PeekIdx(st.queue)],
                 Min({st.queue[PeekIdx(st.queue)].target_parent,
                      filter_end - 1}))
                EXCEPT !.queue = Without(@, PeekIdx(st.queue)),
                       !.child_indexes =
                           PushMissing(@,
                               st.queue[PeekIdx(st.queue)].child_indexes)],
            base, filter_end)

\* As PullTxn, but the children of the entries pulled out are forgotten.
RECURSIVE PullTxnAlone(_, _)
PullTxnAlone(st, txn_start) ==
    IF st.queue = <<>>
         \/ st.queue[PeekIdx(st.queue)].target_parent < txn_start
    THEN st
    ELSE PullTxnAlone(
            [st EXCEPT
                !.queue = Without(@, PeekIdx(st.queue)),
                !.in_frontier =
                    @ \/ st.queue[PeekIdx(st.queue)].entry_in_frontier],
            txn_start)

\* Case 2, the loop over the queue: the entries within this txn are merged
\* into one.
RECURSIVE PullTxn(_, _)
PullTxn(st, txn_start) ==
    IF st.queue = <<>>
         \/ st.queue[PeekIdx(st.queue)].target_parent < txn_start
    THEN st
    ELSE PullTxn(
            [st EXCEPT
                !.queue = Without(@, PeekIdx(st.queue)),
                !.child_indexes =
                    PushMissing(@, st.queue[PeekIdx(st.queue)].child_indexes),
                !.in_frontier =
                    @ \/ st.queue[PeekIdx(st.queue)].entry_in_frontier],
            txn_start)

\* Case 1 after the loop: the new entry base..p + 1 is pushed, its parents
\* unknown.
PushEntry(st, base, p) ==
    [st EXCEPT !.result_rev =
        Append(@, [span |-> [start |-> base, end |-> p + 1],
                   parents |-> <<>>,
                   child_indexes |-> st.child_indexes])]

\* Case 2 after the loop: the parents of the txn are queued.
QueueParents(st, parents) ==
    [st EXCEPT !.queue =
        @ \o QueueEntries(parents, st.child_indexes, st.in_frontier)]

\* The loops of subgraph_raw.  SubTxn is the body of 'outer for one entry
\* and the txn found for it, SubLoop is 'outer itself.
RECURSIVE SubTxn(_, _, _, _, _)
RECURSIVE SubLoop(_, _, _)
\* As SubCase1, but the rest of the txn below the filter span is never
\* looked at again.
SubCase1Once(log, runs, txn_start, st) ==
    SubLoop(log, runs,
            [st EXCEPT !.queue =
                @ \o QueueEntries(log.ops[txn_start].parents,
                                  <<Len(st.result_rev)>>, FALSE)])

SubCase1(log, runs, txn_start, st) ==
    IF runs[st.k].start > txn_start
    THEN SubTxn(log, runs, txn_start,
                [target_parent |-> runs[st.k].start - 1,
                 child_indexes |-> <<Len(st.result_rev)>>,
                 entry_in_frontier |-> FALSE],
                st)
    ELSE SubLoop(log, runs,
                 [st EXCEPT !.queue =
                     @ \o QueueEntries(log.ops[txn_start].parents,
                                       <<Len(st.result_rev)>>, FALSE)])

SubScanned(log, runs, txn_start, entry, st) ==
    IF st.k > Len(runs) THEN st
    ELSE IF runs[st.k].end <= txn_start
    THEN SubLoop(log, runs,
             QueueParents(
                 PullTxn([st EXCEPT
                             !.child_indexes = entry.child_indexes,
                             !.in_frontier = entry.entry_in_frontier],
                         txn_start),
                 log.ops[txn_start].parents))
    ELSE SubCase1(log, runs, txn_start,
             PushEntry(
                 PullWithin(
                     [update_parents(st, entry,
                          Min({entry.target_parent, runs[st.k].end - 1}))
                         EXCEPT !.child_indexes = entry.child_indexes],
                     Max({runs[st.k].start, txn_start}), runs[st.k].end),
                 Max({runs[st.k].start, txn_start}),
                 Min({entry.target_parent, runs[st.k].end - 1})))

SubTxn(log, runs, txn_start, entry, st) ==
    SubScanned(log, runs, txn_start, entry,
        [st EXCEPT !.k = scan_until_start_below(runs, @, entry.target_parent)])

SubLoop(log, runs, st) ==
    IF st.queue = <<>> THEN st
    ELSE SubTxn(log, runs,
                TxnStart(log, st.queue[PeekIdx(st.queue)].target_parent),
                st.queue[PeekIdx(st.queue)],
                [st EXCEPT !.queue = Without(@, PeekIdx(st.queue))])

\* As clean_frontier, without find_dominators.
clean_frontier_reversed(log, f) == Reversed(f)

\* clean_frontier: find_dominators of a list of two or more.
clean_frontier(log, f) ==
    IF Len(f) >= 2 THEN SortedSeq(Dominators(log, Range(f))) ELSE f

\* The end of subgraph_raw: result_rev reversed, parents cleaned and
\* child_indexes renumbered.
SubFinish(log, st) ==
    [entries |->
        [i \in 1..Len(st.result_rev) |->
            LET e == st.result_rev[Len(st.result_rev) + 1 - i]
            IN [span |-> e.span,
                parents |-> clean_frontier(log, e.parents),
                child_indexes |->
                    Reversed([j \in 1..Len(e.child_indexes) |->
                        Len(st.result_rev) + 1 - e.child_indexes[j]])]],
     frontier |-> clean_frontier(log, st.frontier)]

\* Graph::subgraph(filter, parents): the entries of the subgraph and the
\* filtered frontier.
subgraph_raw(log, filter, parents) ==
    SubFinish(log,
        SubLoop(log, FilterRuns(filter),
            [queue |-> QueueEntries(parents, <<>>, TRUE),
             result_rev |-> <<>>, frontier |-> <<>>, k |-> 1,
             child_indexes |-> <<>>, in_frontier |-> FALSE]))

\* project_onto_subgraph_raw: the queue holds enc(active, v) = 2v + active.
enc(active, v) == 2 * v + (IF active THEN 1 ELSE 0)

EncAll(active, ps) ==
    [i \in 1..Cardinality(ps) |-> enc(active, SortedSeq(ps)[i])]

\* BinaryHeap<usize>::peek: the place of a greatest member, and the member.
TopIdx(q) == CHOOSE i \in 1..Len(q) : \A j \in 1..Len(q) : q[j] <= q[i]

Top(q) == q[TopIdx(q)]

\* The loop over the queue within one txn: everything else of the txn is
\* thrown away.
RECURSIVE ProjPull(_, _, _)
\* As ProjPull, but an entry that is not active never clears mark_active.
ProjPullKeepsMark(st, txn_start, mark_v) ==
    IF st.queue = <<>> \/ Top(st.queue) \div 2 < txn_start THEN st
    ELSE ProjPull(
            [st EXCEPT
                !.queue = Without(@, TopIdx(st.queue)),
                !.num_active_entries =
                    IF Top(st.queue) % 2 = 1 THEN @ - 1 ELSE @],
            txn_start, mark_v)

ProjPull(st, txn_start, mark_v) ==
    IF st.queue = <<>> \/ Top(st.queue) \div 2 < txn_start THEN st
    ELSE ProjPull(
            [st EXCEPT
                !.queue = Without(@, TopIdx(st.queue)),
                !.mark_active =
                    @ /\ ~(Top(st.queue) \div 2 >= mark_v
                             /\ Top(st.queue) % 2 = 0),
                !.num_active_entries =
                    IF Top(st.queue) % 2 = 1 THEN @ - 1 ELSE @],
            txn_start, mark_v)

\* The rest of the loop body once the queue was pulled: the version is
\* pushed when the filter reaches into the txn, then the parents queued.
RECURSIVE ProjLoop(_, _, _)
ProjPush(log, runs, st, txn_start, mark_v) ==
    IF runs[st.k].end > txn_start /\ st.mark_active
    THEN IF st.num_active_entries = 0
         THEN [st EXCEPT !.result = Append(@, mark_v)]
         ELSE ProjLoop(log, runs,
                  [st EXCEPT
                      !.result = Append(@, mark_v),
                      !.queue =
                          @ \o EncAll(FALSE, log.ops[txn_start].parents)])
    ELSE IF st.mark_active
    THEN ProjLoop(log, runs,
             [st EXCEPT
                 !.num_active_entries =
                     @ + Cardinality(log.ops[txn_start].parents),
                 !.queue = @ \o EncAll(TRUE, log.ops[txn_start].parents)])
    ELSE IF st.num_active_entries = 0 THEN st
    ELSE ProjLoop(log, runs,
             [st EXCEPT
                 !.queue = @ \o EncAll(FALSE, log.ops[txn_start].parents)])

ProjScanned(log, runs, st, v) ==
    IF st.k > Len(runs) THEN st
    ELSE ProjPush(log, runs,
             ProjPull(st, TxnStart(log, v), Min({v, runs[st.k].end - 1})),
             TxnStart(log, v), Min({v, runs[st.k].end - 1}))

ProjLoop(log, runs, st) ==
    IF st.queue = <<>> THEN st
    ELSE ProjScanned(log, runs,
             [st EXCEPT
                 !.queue = Without(@, TopIdx(st.queue)),
                 !.mark_active = Top(st.queue) % 2 = 1,
                 !.num_active_entries =
                     IF Top(st.queue) % 2 = 1 THEN @ - 1 ELSE @,
                 !.k = scan_until_start_below(runs, @,
                                              Top(st.queue) \div 2)],
             Top(st.queue) \div 2)

\* Graph::project_onto_subgraph(filter, frontier).
project_onto_subgraph_raw(log, filter, frontier) ==
    IF frontier = {} THEN <<>>
    ELSE Reversed(
            ProjLoop(log, FilterRuns(filter),
                [queue |-> EncAll(TRUE, frontier),
                 result |-> <<>>, k |-> 1, mark_active |-> FALSE,
                 num_active_entries |-> Cardinality(frontier)]).result)

\* ------------------------------------------------------------------------
\* ost/content_tree.rs: the order-statistic tree and the side index
\* ------------------------------------------------------------------------
\* Leaves, nodes and the slots of their arrays are numbered from 1 (index 0
\* of the code); 0 stands for usize::MAX, the index of nothing.  An item is
\* a TestRange: id, len, is_activated (act) and exists.
LEAF_CHILDREN == 4

NODE_CHILDREN == 4

LEAF_SPLIT_POINT == LEAF_CHILDREN \div 2

NODE_SPLIT_POINT == NODE_CHILDREN \div 2

ZeroPair == [cur |-> 0, end |-> 0]

PairAdd(a, b) == [cur |-> a.cur + b.cur, end |-> a.end + b.end]

PairSub(a, b) == [cur |-> a.cur - b.cur, end |-> a.end - b.end]

RECURSIVE PairSum(_)
PairSum(ps) ==
    IF ps = <<>> THEN ZeroPair ELSE PairAdd(Head(ps), PairSum(Tail(ps)))

\* V::none(): the item of an unused slot.
NoneItem == [id |-> 0, len |-> 0, act |-> FALSE, exists |-> FALSE]

\* Content::content_len_pair of a TestRange.
content_len_pair(v) ==
    IF ~v.exists THEN ZeroPair
    ELSE [cur |-> IF v.act THEN v.len ELSE 0, end |-> v.len]

\* The content lengths of the items of a slice, summed.
SliceSize(items) ==
    PairSum([i \in 1..Len(items) |-> content_len_pair(items[i])])

can_append(a, b) == b.id = a.id + a.len /\ b.act = a.act

\* What truncate(at) returns: the part of the item from `at` on.
truncate(v, at) == [v EXCEPT !.id = v.id + at, !.len = v.len - at]

initial_root_leaf ==
    [children |-> [i \in 1..LEAF_CHILDREN |-> NoneItem],
     next_leaf |-> 0, parent |-> 0]

\* ContentTree::new(), with the side index notify writes to: index[lv] is
\* the leaf last notified for lv.
NewTree ==
    [leaves |-> <<initial_root_leaf>>, nodes |-> <<>>, height |-> 0,
     root |-> 1, total_len |-> ZeroPair, index |-> <<>>, err |-> ""]

\* A panic: a failed unwrap or assertion.
Panic(T) == [T EXCEPT !.err = "panic"]

\* notify_for: index.set_range(entry.id, InsPtr(leaf)).
Notify(T, v, leaf) ==
    IF ~v.exists THEN T
    ELSE LET ids == v.id..(v.id + v.len - 1)
             old == T.index
         IN [T EXCEPT !.index =
                [i \in (DOMAIN old) \cup ids |->
                    IF i \in ids THEN leaf ELSE old[i]]]

RECURSIVE NotifyAll(_, _, _)
NotifyAll(T, items, leaf) ==
    IF items = <<>> THEN T
    ELSE NotifyAll(Notify(T, Head(items), leaf), Tail(items), leaf)

has_space(leaf, space_wanted) ==
    space_wanted = 0 \/ ~leaf.children[LEAF_CHILDREN - space_wanted + 1].exists

\* .iter().position(|i| *i == x): 0 when there is none.
PosOf(arr, x) ==
    IF \E i \in 1..Len(arr) : arr[i] = x
    THEN Min({i \in 1..Len(arr) : arr[i] = x}) ELSE 0

\* copy_within(pos..N - 1, pos + 1), then arr[pos] = x.
ShiftIn(arr, pos, x) ==
    [i \in 1..Len(arr) |->
        IF i < pos THEN arr[i] ELSE IF i = pos THEN x ELSE arr[i - 1]]

create_new_root_node(T, child_a, child_b, b_size) ==
    [T EXCEPT
        !.height = @ + 1,
        !.root = Len(T.nodes) + 1,
        !.nodes = Append(@,
            [child_indexes |->
                [i \in 1..NODE_CHILDREN |->
                    IF i = 1 THEN child_a ELSE IF i = 2 THEN child_b ELSE 0],
             child_width |->
                [i \in 1..NODE_CHILDREN |->
                    IF i = 1 THEN PairSub(T.total_len, b_size)
                    ELSE IF i = 2 THEN b_size ELSE ZeroPair],
             parent |-> 0])]

\* The parent of the children in `moved` becomes new_idx.
Reparent(T, moved, new_idx, children_are_leaves) ==
    IF children_are_leaves
    THEN [T EXCEPT !.leaves =
            [i \in 1..Len(@) |->
                IF i \in moved THEN [@[i] EXCEPT !.parent = new_idx]
                ELSE @[i]]]
    ELSE [T EXCEPT !.nodes =
            [i \in 1..Len(@) |->
                IF i \in moved THEN [@[i] EXCEPT !.parent = new_idx]
                ELSE @[i]]]

\* split_node and split_child_of_node return the tree and a node index:
\* the new node, and the node the new child went into.
\* The end of split_node below the root: p is what split_child_of_node
\* returned for the parent.
SplitNodeInParent(p, new_node_idx) ==
    IF p.t.err # "" THEN [t |-> p.t, idx |-> new_node_idx]
    ELSE [t |-> [p.t EXCEPT !.nodes[new_node_idx].parent = p.idx],
          idx |-> new_node_idx]

\* The end of split_child_of_node: s is the node split when it was full,
\* and the new child goes in after position pos.
SplitChildInsert(s, in_new, pos, node_idx, new_child_idx, stolen_len) ==
    LET n_idx == IF in_new THEN s.idx ELSE node_idx
        child_pos == IF in_new THEN pos - NODE_SPLIT_POINT ELSE pos
        insert_pos == (child_pos % NODE_CHILDREN) + 1
    IN IF s.t.err # "" THEN s
       ELSE [t |-> [s.t EXCEPT
                      !.nodes[n_idx].child_indexes =
                          ShiftIn(@, insert_pos, new_child_idx),
                      !.nodes[n_idx].child_width =
                          ShiftIn([@ EXCEPT ![child_pos] =
                                      PairSub(@, stolen_len)],
                                  insert_pos, stolen_len)],
             idx |-> n_idx]

RECURSIVE split_node(_, _, _)
RECURSIVE split_child_of_node(_, _, _, _, _, _)
split_node(T, old_idx, children_are_leaves) ==
    LET new_node_idx == Len(T.nodes) + 1
        old == T.nodes[old_idx]
        split_size == PairSum(SubSeq(old.child_width, 1, LEAF_SPLIT_POINT))
        new_node ==
            [child_indexes |->
                [i \in 1..NODE_CHILDREN |->
                    IF i <= NODE_SPLIT_POINT
                    THEN old.child_indexes[NODE_SPLIT_POINT + i] ELSE 0],
             child_width |->
                [i \in 1..NODE_CHILDREN |->
                    IF i <= NODE_SPLIT_POINT
                    THEN old.child_width[NODE_SPLIT_POINT + i] ELSE ZeroPair],
             parent |-> 0]
        moved == {new_node.child_indexes[i] : i \in 1..NODE_SPLIT_POINT}
        T1 == [T EXCEPT !.nodes[old_idx].child_indexes =
                  [i \in 1..NODE_CHILDREN |->
                      IF i <= NODE_SPLIT_POINT THEN @[i] ELSE 0]]
        T2 == Reparent(T1, moved, new_node_idx, children_are_leaves)
        T3 == [T2 EXCEPT !.nodes = Append(@, new_node)]
    IN IF old_idx = T.root
       THEN [t |-> [create_new_root_node(T3, old_idx, new_node_idx,
                                         split_size)
                       EXCEPT !.nodes[old_idx].parent = Len(T3.nodes) + 1,
                              !.nodes[new_node_idx].parent =
                                  Len(T3.nodes) + 1],
             idx |-> new_node_idx]
       ELSE SplitNodeInParent(
                split_child_of_node(T3, old.parent, new_node_idx, old_idx,
                                    split_size, FALSE),
                new_node_idx)

split_child_of_node(T, node_idx, child_idx, new_child_idx, stolen_len, children_are_leaves) ==
    LET node == T.nodes[node_idx]
        pos == PosOf(node.child_indexes, child_idx)
        full == node.child_indexes[NODE_CHILDREN] # 0
    IN IF pos = 0 THEN [t |-> Panic(T), idx |-> node_idx]
       ELSE SplitChildInsert(
                IF full THEN split_node(T, node_idx, children_are_leaves)
                ELSE [t |-> T, idx |-> node_idx],
                full /\ pos > NODE_SPLIT_POINT,
                pos, node_idx, new_child_idx, stolen_len)

\* The end of split_leaf: p is the tree with the new leaf's place made in
\* the parent p.idx; the second half of the old leaf moves to the new one.
SplitLeafInto(p, old_idx, new_leaf_idx) ==
    IF p.t.err # "" THEN [t |-> p.t, idx |-> new_leaf_idx]
    ELSE LET old1 == p.t.leaves[old_idx]
             new_leaf ==
                 [children |->
                     [i \in 1..LEAF_CHILDREN |->
                         IF i <= LEAF_SPLIT_POINT
                         THEN old1.children[LEAF_SPLIT_POINT + i]
                         ELSE NoneItem],
                  next_leaf |-> old1.next_leaf,
                  parent |-> p.idx]
         IN [t |-> [p.t EXCEPT
                      !.leaves = Append(
                         [@ EXCEPT
                            ![old_idx].children =
                                [i \in 1..LEAF_CHILDREN |->
                                    IF i <= LEAF_SPLIT_POINT THEN @[i]
                                    ELSE NoneItem],
                            ![old_idx].next_leaf = new_leaf_idx],
                         new_leaf)],
             idx |-> new_leaf_idx]

\* split_leaf: the tree and the index of the new leaf.
split_leaf(T, old_idx, notify_here) ==
    LET new_leaf_idx == Len(T.leaves) + 1
        old == T.leaves[old_idx]
        tail == SubSeq(old.children, LEAF_SPLIT_POINT + 1, LEAF_CHILDREN)
        T0 == IF notify_here THEN NotifyAll(T, tail, new_leaf_idx) ELSE T
        new_size == SliceSize(tail)
    IN SplitLeafInto(
           IF T.height = 0
           THEN [t |-> [create_new_root_node(T0, old_idx, new_leaf_idx,
                                             new_size)
                           EXCEPT !.leaves[old_idx].parent = 1],
                 idx |-> 1]
           ELSE split_child_of_node(T0, old.parent, old_idx, new_leaf_idx,
                                    new_size, TRUE),
           old_idx, new_leaf_idx)

\* The loop of flush_delta_len, from node idx up to the root.
RECURSIVE FlushUp(_, _, _, _)
FlushUp(T, idx, child, delta) ==
    IF idx = 0 THEN [T EXCEPT !.total_len = PairAdd(@, delta)]
    ELSE LET pos == PosOf(T.nodes[idx].child_indexes, child)
         IN IF pos = 0 THEN Panic(T)
            ELSE FlushUp([T EXCEPT !.nodes[idx].child_width[pos] =
                                       PairAdd(@, delta)],
                         T.nodes[idx].parent, idx, delta)

flush_delta_len(T, leaf_idx, delta) ==
    IF delta = ZeroPair THEN T
    ELSE FlushUp(T, T.leaves[leaf_idx].parent, leaf_idx, delta)

\* The end of make_space_in_leaf_for when the leaf was split: T1 is the
\* tree with delta_len flushed, s what split_leaf returned.
MakeSpaceInSplit(T1, s, leaf_idx, elem_idx, delta) ==
    IF T1.err # ""
    THEN [t |-> T1, leaf |-> leaf_idx, elem |-> elem_idx, delta |-> delta]
    ELSE IF s.t.err = "" /\ elem_idx - 1 >= LEAF_SPLIT_POINT
    THEN [t |-> s.t, leaf |-> s.idx,
          elem |-> elem_idx - LEAF_SPLIT_POINT, delta |-> ZeroPair]
    ELSE [t |-> s.t, leaf |-> leaf_idx, elem |-> elem_idx, delta |-> delta]

MakeSpaceFlushed(T1, leaf_idx, elem_idx, delta, notify_here) ==
    MakeSpaceInSplit(T1, split_leaf(T1, leaf_idx, notify_here),
                     leaf_idx, elem_idx, delta)

\* make_space_in_leaf_for: the tree, where the item goes, and delta_len.
make_space_in_leaf_for(T, space_wanted, leaf_idx, elem_idx, delta, notify_here) ==
    IF has_space(T.leaves[leaf_idx], space_wanted)
    THEN [t |-> [T EXCEPT !.leaves[leaf_idx].children =
                    [i \in 1..LEAF_CHILDREN |->
                        IF i >= elem_idx + space_wanted
                        THEN @[i - space_wanted] ELSE @[i]]],
          leaf |-> leaf_idx, elem |-> elem_idx, delta |-> delta]
    ELSE MakeSpaceFlushed(flush_delta_len(T, leaf_idx, delta),
                          leaf_idx, elem_idx, delta, notify_here)

\* The end of splice_in_internal: m is what make_space_in_leaf_for
\* returned; the item is notified, the remainder is not.
SpliceInto(m, item, remainder) ==
    IF m.t.err # "" THEN m
    ELSE [t |-> [Notify(m.t, item, m.leaf) EXCEPT
                   !.leaves[m.leaf].children =
                       [i \in 1..LEAF_CHILDREN |->
                           IF i = m.elem THEN item
                           ELSE IF i = m.elem + 1 /\ remainder.exists
                           THEN remainder ELSE @[i]]],
          leaf |-> m.leaf, elem |-> m.elem,
          delta |-> PairAdd(m.delta,
                       PairAdd(content_len_pair(item),
                               content_len_pair(remainder)))]

\* splice_in_internal: item, then remainder if it exists, go in at elem_idx.
splice_in_internal(T, item, remainder, leaf_idx, elem_idx, delta, notify_here) ==
    SpliceInto(make_space_in_leaf_for(T,
                   IF remainder.exists THEN 2 ELSE 1,
                   leaf_idx, elem_idx, delta, notify_here),
               item, remainder)

\* The end of SpliceAppend when the entry was cut: r is what
\* splice_in_internal returned for the remainder.
SpliceAppendRest(r, c1, leaf_idx) ==
    [t |-> r.t,
     cursor |-> IF r.leaf # leaf_idx /\ r.elem - 1 > 0
                THEN [c1 EXCEPT !.leaf_idx = r.leaf,
                                !.elem_idx = r.elem - 1]
                ELSE c1,
     delta |-> r.delta]

SpliceAppended(T1, remainder, c1, leaf_idx, elem_idx, d1) ==
    IF ~remainder.exists THEN [t |-> T1, cursor |-> c1, delta |-> d1]
    ELSE SpliceAppendRest(
             splice_in_internal(T1, remainder, NoneItem, leaf_idx,
                                elem_idx + 1, d1, TRUE),
             c1, leaf_idx)

\* splice_in when the item is appended to the entry at elem_idx, which was
\* cut at the cursor when remainder exists.
SpliceAppend(T, item, remainder, cursor, elem_idx, delta) ==
    SpliceAppended(
        [Notify(T, item, cursor.leaf_idx) EXCEPT
            !.leaves[cursor.leaf_idx].children[elem_idx].len = @ + item.len],
        remainder,
        [cursor EXCEPT !.offset =
            T.leaves[cursor.leaf_idx].children[elem_idx].len + item.len],
        cursor.leaf_idx, elem_idx,
        PairAdd(delta, content_len_pair(item)))

SpliceSlotDone(r, item) ==
    [t |-> r.t,
     cursor |-> [leaf_idx |-> r.leaf, elem_idx |-> r.elem,
                 offset |-> item.len],
     delta |-> r.delta]

\* splice_in when the item goes into a slot of its own, at elem_idx.
SpliceSlot(T, item, remainder, cursor, elem_idx, delta) ==
    SpliceSlotDone(splice_in_internal(T, item, remainder, cursor.leaf_idx,
                                      elem_idx, delta, TRUE),
                   item)

\* splice_in once the cursor was rolled back or the entry under it cut:
\* the tree, the cursor and delta_len.
SpliceAt(T, item, remainder, cursor, elem_idx, offset, delta) ==
    IF offset # 0 /\ can_append(T.leaves[cursor.leaf_idx].children[elem_idx],
                                item)
    THEN SpliceAppend(T, item, remainder, cursor, elem_idx, delta)
    ELSE SpliceSlot(T, item, remainder, cursor,
                    IF offset # 0 THEN elem_idx + 1 ELSE elem_idx, delta)

\* splice_in(item, cursor, delta_len, notify_here = true, notify).
splice_in(T, item, cursor) ==
    LET node == T.leaves[cursor.leaf_idx]
        entry == node.children[cursor.elem_idx]
    IN IF cursor.offset = 0 /\ cursor.elem_idx > 1
       THEN SpliceAt(T, item, NoneItem, cursor, cursor.elem_idx - 1,
                     node.children[cursor.elem_idx - 1].len, ZeroPair)
       ELSE IF cursor.offset = entry.len \/ cursor.offset = 0
       THEN SpliceAt(T, item, NoneItem, cursor, cursor.elem_idx,
                     cursor.offset, ZeroPair)
       ELSE SpliceAt([T EXCEPT !.leaves[cursor.leaf_idx]
                                  .children[cursor.elem_idx].len =
                                      cursor.offset],
                     item, truncate(entry, cursor.offset), cursor,
                     cursor.elem_idx, cursor.offset,
                     PairSub(ZeroPair,
                         content_len_pair(truncate(entry, cursor.offset))))

\* dbg_check_walk_internal: whether its assertions hold, and the next_leaf
\* of the last leaf walked.
RECURSIVE dbg_check_walk_internal(_, _, _, _, _, _)
RECURSIVE WalkChildren(_, _, _, _, _, _)
WalkChildren(T, idx, height, i, expect_next, size) ==
    IF i > NODE_CHILDREN \/ T.nodes[idx].child_indexes[i] = 0
    THEN [ok |-> /\ i >= 2
                 /\ \A j \in i..NODE_CHILDREN :
                       T.nodes[idx].child_indexes[j] = 0,
          next |-> expect_next, size |-> size]
    ELSE LET w == dbg_check_walk_internal(T, T.nodes[idx].child_indexes[i],
                      height + 1, expect_next, idx,
                      T.nodes[idx].child_width[i])
         IN IF ~w.ok THEN [ok |-> FALSE, next |-> 0, size |-> size]
            ELSE WalkChildren(T, idx, height, i + 1, w.next,
                     PairAdd(size, T.nodes[idx].child_width[i]))

dbg_check_walk_internal(T, idx, height, expect_next, expect_parent, expect_size) ==
    IF height = T.height
    THEN IF idx < 1 \/ idx > Len(T.leaves) THEN [ok |-> FALSE, next |-> 0]
         ELSE [ok |-> /\ T.leaves[idx].parent = expect_parent
                      /\ idx = expect_next
                      /\ SliceSize(T.leaves[idx].children) = expect_size,
               next |-> T.leaves[idx].next_leaf]
    ELSE IF idx < 1 \/ idx > Len(T.nodes) THEN [ok |-> FALSE, next |-> 0]
         ELSE IF T.nodes[idx].parent # expect_parent
         THEN [ok |-> FALSE, next |-> 0]
         ELSE LET w == WalkChildren(T, idx, height, 1, expect_next, ZeroPair)
              IN [ok |-> w.ok /\ w.size = expect_size, next |-> w.next]

\* The leaves met by following next_leaf from leaf idx, at most n of them.
RECURSIVE LeafChain(_, _, _)
LeafChain(T, idx, n) ==
    IF idx < 1 \/ idx > Len(T.leaves) \/ n = 0 THEN <<>>
    ELSE <<idx>> \o LeafChain(T, T.leaves[idx].next_leaf, n - 1)

\* ContentTree::dbg_check: whether all its assertions hold.  The walk of the
\* tree starts at index 0, and the free pools are empty.
tree_dbg_check(T) ==
    LET w == dbg_check_walk_internal(T, 1, 0, 1, 0, T.total_len)
        chain == LeafChain(T, 1, Len(T.leaves) + 1)
    IN /\ w.ok /\ w.next = 0
       /\ \A k \in 1..Len(chain) :
             IF k = 1
             THEN T.leaves[chain[k]].children[1].exists
                    \/ (/\ T.leaves[chain[k]].next_leaf = 0
                        /\ T.total_len = ZeroPair)
             ELSE T.leaves[chain[k]].children[1].exists
       /\ Len(chain) = Len(T.leaves)
       /\ T.root <= (IF T.height = 0 THEN Len(T.leaves) ELSE Len(T.nodes))

\* insert_notify: the tree and the cursor after it; err is "panic" when an
\* unwrap or the closing dbg_check fails.
InsertChecked(T1, cursor) ==
    [t |-> IF T1.err = "" /\ ~tree_dbg_check(T1) THEN Panic(T1) ELSE T1,
     cursor |-> cursor]

InsertSpliced(s) ==
    InsertChecked(IF s.t.err # "" THEN s.t
                  ELSE flush_delta_len(s.t, s.cursor.leaf_idx, s.delta),
                  s.cursor)

insert_notify(T, item, cursor) == InsertSpliced(splice_in(T, item, cursor))

\* find_pos_in_node and find_pos_in_leaf with the end metric: the first
\* slot from i on whose width reaches at_pos, 0 when there is none.
RECURSIVE FindPos(_, _, _)
FindPos(widths, i, at_pos) ==
    IF i > Len(widths) THEN [i |-> 0, pos |-> at_pos]
    ELSE IF at_pos <= widths[i] THEN [i |-> i, pos |-> at_pos]
    ELSE FindPos(widths, i + 1, at_pos - widths[i])

\* cursor_at_content_pos::<false>: descends from node idx at height h.
RECURSIVE CursorDown(_, _, _, _)
CursorDown(T, idx, h, pos) ==
    IF h = T.height
    THEN LET f == FindPos([i \in 1..LEAF_CHILDREN |->
                              content_len_pair(T.leaves[idx].children[i]).end],
                          1, pos)
         IN [leaf_idx |-> idx, elem_idx |-> f.i, offset |-> f.pos]
    ELSE LET f == FindPos([i \in 1..NODE_CHILDREN |->
                              T.nodes[idx].child_width[i].end], 1, pos)
         IN IF f.i = 0 THEN [leaf_idx |-> 0, elem_idx |-> 0, offset |-> 0]
            ELSE CursorDown(T, T.nodes[idx].child_indexes[f.i], h + 1, f.pos)

cursor_at_content_pos(T, content_pos) == CursorDown(T, T.root, 0, content_pos)

\* ------------------------------------------------------------------------
\* causalgraph/storage.rs: cells, entries and their encoding
\* ------------------------------------------------------------------------
\* A cell of the file holds a number, or the checksum of a body.  set_len
\* fills the file with zeros.
Num(n) == [t |-> "n", v |-> n]

IsNum(c) == c.t = "n"

ZeroFill(n) == [i \in 1..n |-> Num(0)]

\* calc_checksum: distinct bodies have distinct checksums; the checksum of
\* nothing is 0.
calc_checksum(body) == IF body = <<>> THEN Num(0) ELSE [t |-> "ck", v |-> body]

\* The file after `data` is written at offset `at` (offsets count from 0).
WriteAt(f, at, data) ==
    LET end == at + Len(data)
        ext == IF Len(f) < end THEN f \o ZeroFill(end - Len(f)) ELSE f
    IN [i \in 1..Len(ext) |->
          IF i > at /\ i <= end THEN data[i - at] ELSE ext[i]]

Slice(f, at, n) == SubSeq(f, at + 1, at + n)

\* Agent names, as byte strings: a short one and one as long as a UID, whose
\* tagged records do not fit into what is left of a blit slot behind the
\* checksum and the length.
JournalNames == {<<1>>, <<2, 2, 2, 2>>}

\* The causal graph, one entry per LV: the parents of each LV (history) and
\* the (agent name, seq) of each LV (agent assignment).
EmptyGraph == [parents |-> <<>>, agents |-> <<>>]

\* MinimalHistoryEntry: the LVs start .. start + len - 1, the first with the
\* given parents, each of the others with its predecessor as parent.
NoParents == [start |-> 0, len |-> 0, parents |-> {}]

\* CRDTSpan: len sequence numbers of an agent, from seq on.
NoSpan == [agent |-> <<>>, seq |-> 0, len |-> 0]

\* cg.history.insert(parents, span) at next_time = len_history().
history_insert(g, e) ==
    [g EXCEPT !.parents = @ \o
        [i \in 1..e.len |->
            IF i = 1 THEN e.parents ELSE {Len(g.parents) + i - 1}]]

\* cg.assign_times_to_agent(span).
assign_times_to_agent(g, s) ==
    [g EXCEPT !.agents = @ \o [i \in 1..s.len |-> <<s.agent, s.seq + i - 1>>]]

\* The parents of an entry as one number: bit p - 1 is set for parent p.
RECURSIVE ParentsMask(_)
ParentsMask(ps) ==
    IF ps = {} THEN 0
    ELSE 2 ^ (Max(ps) - 1) + ParentsMask(ps \ {Max(ps)})

MaskParents(m) == {p \in 1..m : (m \div (2 ^ (p - 1))) % 2 = 1}

\* write_txn_entry: the length, with the tag bit (0: parents) below it when
\* tagged, then the parents.
write_txn_entry(tag, e) ==
    <<Num(IF tag THEN 2 * e.len ELSE e.len), Num(ParentsMask(e.parents))>>

\* write_agent_assignment_span: the length, with the tag bit (1: agent
\* assignment) below it when tagged, then the agent's name and the first seq.
write_agent_assignment_span(tag, s) ==
    <<Num(IF tag THEN 2 * s.len + 1 ELSE s.len), Num(Len(s.agent))>>
        \o [i \in 1..Len(s.agent) |-> Num(s.agent[i])]
        \o <<Num(s.seq)>>

\* read_txn_entry at next_time: the entry and the cells left, or a failure.
read_txn_entry(cells, tagged, next_time) ==
    IF Len(cells) < 2 \/ ~IsNum(cells[1]) \/ ~IsNum(cells[2])
    THEN [ok |-> FALSE, entry |-> NoParents, rest |-> <<>>]
    ELSE [ok |-> TRUE,
          entry |-> [start |-> next_time + 1,
                     len |-> IF tagged THEN cells[1].v \div 2 ELSE cells[1].v,
                     parents |-> MaskParents(cells[2].v)],
          rest |-> SubSeq(cells, 3, Len(cells))]

\* read_agent_assignment: the span and the cells left, or a failure.
read_agent_assignment(cells, tagged) ==
    IF Len(cells) < 2 \/ ~IsNum(cells[1]) \/ ~IsNum(cells[2])
    THEN [ok |-> FALSE, span |-> NoSpan, rest |-> <<>>]
    ELSE LET n == cells[2].v
         IN IF \/ Len(cells) < n + 3
               \/ \E i \in 3..(n + 3) : ~IsNum(cells[i])
            THEN [ok |-> FALSE, span |-> NoSpan, rest |-> <<>>]
            ELSE [ok |-> TRUE,
                  span |-> [agent |-> [i \in 1..n |-> cells[i + 2].v],
                            seq |-> cells[n + 3].v,
                            len |-> IF tagged THEN cells[1].v \div 2
                                    ELSE cells[1].v],
                  rest |-> SubSeq(cells, n + 4, Len(cells))]

\* read_run: one tagged entry of the data stream, added to the graph.
read_run(cells, g) ==
    IF ~IsNum(cells[1]) THEN [ok |-> FALSE, cg |-> g, rest |-> <<>>]
    ELSE IF cells[1].v % 2 = 1
    THEN LET r == read_agent_assignment(cells, TRUE)
         IN [ok |-> r.ok, cg |-> assign_times_to_agent(g, r.span),
             rest |-> r.rest]
    ELSE LET r == read_txn_entry(cells, TRUE, Len(g.parents))
         IN [ok |-> r.ok, cg |-> history_insert(g, r.entry), rest |-> r.rest]

\* The loop of open over the committed part of the data stream.
RECURSIVE read_runs(_, _)
read_runs(cells, g) ==
    IF cells = <<>> THEN [ok |-> TRUE, cg |-> g]
    ELSE LET r == read_run(cells, g)
         IN IF ~r.ok THEN [ok |-> FALSE, cg |-> g]
            ELSE read_runs(r.rest, r.cg)

\* ------------------------------------------------------------------------
\* causalgraph/storage.rs: opening the journal
\* ------------------------------------------------------------------------
CG_MAGIC_BYTES == <<Num(68)>>

CG_VERSION == <<Num(1)>>

\* Magic bytes, version, then blit size.
CG_HEADER_LENGTH == Len(CG_MAGIC_BYTES) + Len(CG_VERSION) + 1

\* No process has the journal open.  recorded is the graph of the entries
\* the storage was handed (by open and by the push functions): what the
\* next blit records.  pos is the position of the file handle.
NoStorage ==
    [live |-> FALSE, debug |-> FALSE, blit_size |-> 0,
     next_write_location |-> 0, next_counter |-> 0, dirty_blit |-> FALSE,
     next_blit |-> FALSE, last_parents |-> NoParents, assigned_to |-> NoSpan,
     next_flush_time |-> 0, pos |-> 0, recorded |-> EmptyGraph]

data_start(s) == CG_HEADER_LENGTH + s.blit_size * 2

next_blit_location(s) ==
    CG_HEADER_LENGTH + s.blit_size * (IF s.next_blit THEN 1 ELSE 0)

\* read_header: a file shorter than the header is new and gets one.
read_header(f) ==
    IF Len(f) < CG_HEADER_LENGTH
    THEN [ok |-> TRUE, blit_size |-> CG_DEFAULT_BLIT_SIZE,
          file |-> WriteAt(f, 0, CG_MAGIC_BYTES \o CG_VERSION
                                    \o <<Num(CG_DEFAULT_BLIT_SIZE)>>)]
    ELSE IF \/ SubSeq(f, 1, Len(CG_MAGIC_BYTES)) # CG_MAGIC_BYTES
            \/ SubSeq(f, Len(CG_MAGIC_BYTES) + 1, CG_HEADER_LENGTH - 1)
                    # CG_VERSION
            \/ ~IsNum(f[CG_HEADER_LENGTH])
            \/ f[CG_HEADER_LENGTH].v > MAX_BLIT_SIZE
    THEN [ok |-> FALSE, blit_size |-> 0, file |-> f]
    ELSE [ok |-> TRUE, blit_size |-> f[CG_HEADER_LENGTH].v, file |-> f]

NoBlit == [ok |-> FALSE, filesize |-> 0, counter |-> 0, data |-> <<>>]

\* A read_blit that trusts the slot: the checksum is not compared.
read_blit_unchecked(buf) ==
    IF ~IsNum(buf[2]) THEN NoBlit
    ELSE LET len == buf[2].v
             body == SubSeq(buf, 3, 2 + len)
         IN IF len = 0 \/ Len(buf) - 2 < len THEN NoBlit
            ELSE IF len < 2 \/ ~IsNum(body[1]) \/ ~IsNum(body[2]) THEN NoBlit
            ELSE [ok |-> TRUE, filesize |-> body[1].v, counter |-> body[2].v,
                  data |-> SubSeq(body, 3, len)]

\* read_blit: checksum, length, then the body: filesize, counter, data.
read_blit(buf) ==
    IF ~IsNum(buf[2]) THEN NoBlit
    ELSE LET len == buf[2].v
             body == SubSeq(buf, 3, 2 + len)
         IN IF len = 0 \/ Len(buf) - 2 < len THEN NoBlit
            ELSE IF buf[1].t # calc_checksum(body).t THEN NoBlit
            ELSE IF buf[1] # calc_checksum(body) THEN NoBlit
            ELSE IF len < 2 \/ ~IsNum(body[1]) \/ ~IsNum(body[2]) THEN NoBlit
            ELSE [ok |-> TRUE, filesize |-> body[1].v, counter |-> body[2].v,
                  data |-> SubSeq(body, 3, len)]

\* impl Ord for Blit: by filesize, then by counter.
BlitGreater(b1, b2) ==
    \/ b1.filesize > b2.filesize
    \/ b1.filesize = b2.filesize /\ b1.counter > b2.counter

\* read_initial_blits: the active blit, the slot it was read from (2 when
\* neither slot holds a blit) and the slot the next blit goes to.
read_initial_blits(f, blit_size) ==
    LET b1 == read_blit(Slice(f, CG_HEADER_LENGTH, blit_size))
        b2 == read_blit(Slice(f, CG_HEADER_LENGTH + blit_size, blit_size))
    IN IF b1.ok /\ b2.ok
       THEN IF BlitGreater(b1, b2)
            THEN [blit |-> b1, slot |-> 0, next_blit |-> TRUE]
            ELSE [blit |-> b2, slot |-> 1, next_blit |-> FALSE]
       ELSE IF b1.ok THEN [blit |-> b1, slot |-> 0, next_blit |-> TRUE]
       ELSE IF b2.ok THEN [blit |-> b2, slot |-> 1, next_blit |-> FALSE]
       ELSE [blit |-> NoBlit, slot |-> 2, next_blit |-> FALSE]

\* The payload of the active blit, read by open on top of the data stream:
\* the pending parents entry, then the pending agent span, and nothing
\* after them.
read_blit_data(data, g) ==
    LET t == read_txn_entry(data, FALSE, Len(g.parents))
        a == read_agent_assignment(t.rest, FALSE)
    IN IF ~t.ok \/ ~a.ok
       THEN [result |-> "InvalidData", cg |-> g,
             last_parents |-> NoParents, assigned_to |-> NoSpan]
       ELSE IF a.rest # <<>>
       THEN [result |-> "panic", cg |-> g,
             last_parents |-> NoParents, assigned_to |-> NoSpan]
       ELSE [result |-> "ok",
             cg |-> assign_times_to_agent(history_insert(g, t.entry), a.span),
             last_parents |-> t.entry, assigned_to |-> a.span]

\* What open gives when it fails: an error returned or a panic, with the
\* file as open left it and the slot read_initial_blits chose.
OpenFailed(f, result, sel) ==
    [result |-> result, file |-> f, cgs |-> NoStorage, cg |-> EmptyGraph,
     slot |-> sel.slot, filesize |-> sel.blit.filesize]

\* An open that takes up the counter of the active blit again.
next_counter_again(active_blit) == active_blit.counter

\* open: self.next_counter = active_blit.counter + 1.
next_counter_after(active_blit) == active_blit.counter + 1

\* CausalGraphStorage::open in a build with (debug) or without debug
\* assertions: the file as open leaves it, the storage and the graph.
open(f, debug) ==
    LET h == read_header(f)
        blit_size == h.blit_size
        ds == CG_HEADER_LENGTH + blit_size * 2
        f1 == IF Len(h.file) < ds
              THEN h.file \o ZeroFill(ds - Len(h.file)) ELSE h.file
        sel == read_initial_blits(f1, blit_size)
        active_blit == sel.blit
        runs == read_runs(Slice(f1, ds, active_blit.filesize), EmptyGraph)
        fin == IF active_blit.data = <<>>
               THEN [result |-> "ok", cg |-> runs.cg,
                     last_parents |-> NoParents, assigned_to |-> NoSpan]
               ELSE read_blit_data(active_blit.data, runs.cg)
    IN IF ~h.ok
       THEN OpenFailed(f, "InvalidHeader", [slot |-> 2, blit |-> NoBlit])
       ELSE IF active_blit.filesize > Len(f1) - ds
       THEN OpenFailed(f1, "panic", sel)
       ELSE IF ~runs.ok THEN OpenFailed(f1, "InvalidData", sel)
       ELSE IF fin.result # "ok" THEN OpenFailed(f1, fin.result, sel)
       ELSE [result |-> "ok", file |-> f1,
             cgs |-> [live |-> TRUE, debug |-> debug,
                      blit_size |-> blit_size,
                      next_write_location |-> active_blit.filesize,
                      next_counter |-> next_counter_after(active_blit),
                      dirty_blit |-> FALSE,
                      next_blit |-> sel.next_blit,
                      last_parents |-> fin.last_parents,
                      assigned_to |-> fin.assigned_to,
                      next_flush_time |-> Len(fin.cg.agents),
                      pos |-> ds + active_blit.filesize,
                      recorded |-> fin.cg],
             cg |-> fin.cg, slot |-> sel.slot,
             filesize |-> active_blit.filesize]

\* ------------------------------------------------------------------------
\* causalgraph/storage.rs: writing
\* ------------------------------------------------------------------------
\* The run of a handler: the storage, the file writes made so far, in
\* order, and how the run ended ("" while it goes on, "BlitTooLarge",
\* "panic").  A write is [at, cells, kind, rec]: kind is "blit" for a whole
\* blit, "head" for the start of a blit that was rejected and "data" for a
\* write of write_data; rec is the graph a whole blit records.
\*
\* A write of kind "sync" has no cells: it stands for file.sync_all() or
\* file.sync_data() returning, after which what was written is on disk.
Sync == [at |-> 0, cells |-> <<>>, kind |-> "sync", rec |-> EmptyGraph]

\* write_blit_to: the cells the BufWriter holds when it is dropped.  The
\* checksum and the length are written before the size is checked.
write_blit_to(max_size, blit) ==
    LET body == <<Num(blit.filesize), Num(blit.counter)>> \o blit.data
        head == <<calc_checksum(body), Num(Len(body))>>
    IN IF 2 + Len(body) > max_size
       THEN [ok |-> FALSE, cells |-> head]
       ELSE [ok |-> TRUE, cells |-> head \o body]

\* write_blit: on BlitTooLarge it returns before next_blit is flipped and
\* before the file handle is moved back to the data stream.
write_blit(S, blit) ==
    IF S.cgs.debug
          /\ S.cgs.pos # S.cgs.next_write_location + data_start(S.cgs)
    THEN [S EXCEPT !.err = "panic"]
    ELSE LET at == next_blit_location(S.cgs)
             w == write_blit_to(S.cgs.blit_size, blit)
             wr == [at |-> at, cells |-> w.cells,
                    kind |-> IF w.ok THEN "blit" ELSE "head",
                    rec |-> S.cgs.recorded]
         IN IF ~w.ok
            THEN [cgs |-> [S.cgs EXCEPT !.pos = at + Len(w.cells)],
                  writes |-> Append(S.writes, wr), err |-> "BlitTooLarge"]
            ELSE [cgs |-> [S.cgs EXCEPT
                             !.next_blit = ~@,
                             !.pos = S.cgs.next_write_location
                                        + data_start(S.cgs)],
                  writes |-> S.writes \o <<wr, Sync>>, err |-> ""]

write_blit_with_data(S, data) ==
    LET r == write_blit(S, [filesize |-> S.cgs.next_write_location,
                            counter |-> S.cgs.next_counter, data |-> data])
    IN IF r.err # "" THEN r
       ELSE [r EXCEPT !.cgs.next_counter = @ + 1, !.cgs.dirty_blit = FALSE]

\* write_data: the data goes where the file handle is.
write_data(S, data) ==
    IF S.cgs.debug
          /\ S.cgs.pos # S.cgs.next_write_location + data_start(S.cgs)
    THEN [S EXCEPT !.err = "panic"]
    ELSE [S EXCEPT
            !.writes = Append(@, [at |-> S.cgs.pos, cells |-> data,
                                  kind |-> "data", rec |-> EmptyGraph]),
            !.cgs.pos = @ + Len(data),
            !.cgs.next_write_location = @ + Len(data),
            !.cgs.next_counter = 0,
            !.cgs.dirty_blit = TRUE]

\* MinimalHistoryEntry::can_append and CRDTSpan::can_append.
CanAppendParents(a, b) ==
    a.start + a.len = b.start /\ b.parents = {b.start - 1}

CanAppendSpan(a, b) == a.agent = b.agent /\ a.seq + a.len = b.seq

\* push_parents_no_sync: the entry is merged into last_parents, or
\* last_parents goes to the data stream and the entry takes its place.
push_parents_no_sync(S, parents) ==
    IF S.err # "" \/ parents.len = 0 THEN S
    ELSE LET S1 == [S EXCEPT
                      !.cgs.dirty_blit = TRUE,
                      !.cgs.recorded = history_insert(@, parents)]
         IN IF S.cgs.last_parents.len = 0
            THEN [S1 EXCEPT !.cgs.last_parents = parents]
            ELSE IF CanAppendParents(S.cgs.last_parents, parents)
            THEN [S1 EXCEPT !.cgs.last_parents.len = @ + parents.len]
            ELSE LET S2 == write_data(S1,
                              write_txn_entry(TRUE, S.cgs.last_parents))
                 IN IF S2.err # "" THEN S2
                    ELSE [S2 EXCEPT !.cgs.last_parents = parents]

\* push_aa_no_sync: the same for assigned_to.
push_aa_no_sync(S, span) ==
    IF S.err # "" \/ span.len = 0 THEN S
    ELSE LET S1 == [S EXCEPT
                      !.cgs.dirty_blit = TRUE,
                      !.cgs.recorded = assign_times_to_agent(@, span)]
         IN IF S.cgs.assigned_to.len = 0
            THEN [S1 EXCEPT !.cgs.assigned_to = span]
            ELSE IF CanAppendSpan(S.cgs.assigned_to, span)
            THEN [S1 EXCEPT !.cgs.assigned_to.len = @ + span.len]
            ELSE LET S2 == write_data(S1,
                              write_agent_assignment_span(TRUE,
                                                          S.cgs.assigned_to))
                 IN IF S2.err # "" THEN S2
                    ELSE [S2 EXCEPT !.cgs.assigned_to = span]

\* flush: a blit with both pending entries; when that is too large, both
\* go to the data stream and an empty blit follows.
flush(S) ==
    IF S.err # "" \/ ~S.cgs.dirty_blit THEN S
    ELSE LET r == write_blit_with_data(S,
                     write_txn_entry(FALSE, S.cgs.last_parents)
                       \o write_agent_assignment_span(FALSE,
                                                      S.cgs.assigned_to))
         IN IF r.err # "BlitTooLarge" THEN r
            ELSE LET d == write_data([r EXCEPT !.err = ""],
                             write_txn_entry(TRUE, S.cgs.last_parents)
                               \o write_agent_assignment_span(TRUE,
                                                      S.cgs.assigned_to))
                 IN IF d.err # "" THEN d
                    ELSE write_blit_with_data(
                            [d EXCEPT !.writes = Append(@, Sync),
                                      !.cgs.last_parents.len = 0,
                                      !.cgs.assigned_to.len = 0], <<>>)

\* cg.history.iter_range(from..len): the entries of the LVs after `from`.
RECURSIVE TxnRuns(_, _)
TxnRuns(g, from) ==
    IF from >= Len(g.parents) THEN <<>>
    ELSE LET n == Len(g.parents)
             end == CHOOSE e \in (from + 1)..n :
                       /\ \A k \in (from + 2)..e : g.parents[k] = {k - 1}
                       /\ e = n \/ g.parents[e + 1] # {e}
         IN <<[start |-> from + 1, len |-> end - from,
               parents |-> g.parents[from + 1]]>> \o TxnRuns(g, end)

\* cg.client_with_localtime.iter_range_packed(from..len).
RECURSIVE AgentRuns(_, _)
AgentRuns(g, from) ==
    IF from >= Len(g.agents) THEN <<>>
    ELSE LET n == Len(g.agents)
             Follows(k) == /\ g.agents[k + 1][1] = g.agents[k][1]
                           /\ g.agents[k + 1][2] = g.agents[k][2] + 1
             end == CHOOSE e \in (from + 1)..n :
                       /\ \A k \in (from + 1)..(e - 1) : Follows(k)
                       /\ e = n \/ ~Follows(e)
         IN <<[agent |-> g.agents[from + 1][1],
               seq |-> g.agents[from + 1][2], len |-> end - from]>>
                \o AgentRuns(g, end)

RECURSIVE PushAllParents(_, _)
PushAllParents(S, es) ==
    IF es = <<>> THEN S
    ELSE PushAllParents(push_parents_no_sync(S, Head(es)), Tail(es))

RECURSIVE PushAllSpans(_, _)
PushAllSpans(S, es) ==
    IF es = <<>> THEN S
    ELSE PushAllSpans(push_aa_no_sync(S, Head(es)), Tail(es))

\* if needs_sync { file.sync_all() }: a push that wrote data asks for it.
SyncIfNeeded(S) ==
    IF S.err = "" /\ S.writes # <<>>
    THEN [S EXCEPT !.writes = Append(@, Sync)] ELSE S

\* save_missing: everything from next_flush_time on is pushed, then
\* flushed.  next_flush_time is left as open set it.
save_missing(s, g) ==
    flush(SyncIfNeeded(
        PushAllSpans(
            PushAllParents([cgs |-> s, writes |-> <<>>, err |-> ""],
                           TxnRuns(g, s.next_flush_time)),
            AgentRuns(g, s.next_flush_time))))

\* write_blit when the device fails the write of the blit: the seek to the
\* slot succeeds, the cells the BufWriter holds are lost when it is dropped,
\* and file.sync_data() returns the I/O error.  next_blit is not flipped and
\* the file handle stays at the slot.
write_blit_io(S, blit) ==
    IF S.cgs.debug
          /\ S.cgs.pos # S.cgs.next_write_location + data_start(S.cgs)
    THEN [S EXCEPT !.err = "panic"]
    ELSE [S EXCEPT !.cgs.pos = next_blit_location(S.cgs), !.err = "Io"]

\* flush on such a device: Err(e) => return Err(e).
flush_io(S) ==
    IF S.err # "" \/ ~S.cgs.dirty_blit THEN S
    ELSE write_blit_io(S, [filesize |-> S.cgs.next_write_location,
                           counter |-> S.cgs.next_counter,
                           data |-> write_txn_entry(FALSE, S.cgs.last_parents)
                                      \o write_agent_assignment_span(FALSE,
                                                      S.cgs.assigned_to)])

\* save_missing on such a device.
save_missing_io(s, g) ==
    flush_io(SyncIfNeeded(
        PushAllSpans(
            PushAllParents([cgs |-> s, writes |-> <<>>, err |-> ""],
                           TxnRuns(g, s.next_flush_time)),
            AgentRuns(g, s.next_flush_time))))

\* What the run S of save_missing returns to its caller: the pushes return
\* their errors with `?`, of which this model has none but the panic, and
\* after `self.flush(&bump, cg);` comes `Ok(())`, whatever flush returned.
save_missing_returns(S) == IF S.err = "panic" THEN "panic" ELSE "Ok"

\* The (filesize, counter) pair a whole blit was written with.
PairOf(w) == [filesize |-> w.cells[3].v, counter |-> w.cells[4].v]

\* Blit::cmp order of the pairs: by filesize, then by counter.
PairGreater(a, b) ==
    \/ a.filesize > b.filesize
    \/ a.filesize = b.filesize /\ a.counter > b.counter

\* A blit that follows the blit with the pair p: after new data it names a
\* larger filesize with counter 0, with no new data the same filesize and
\* the next counter.
PairFollows(a, p, fresh) ==
    IF fresh THEN a.filesize > p.filesize /\ a.counter = 0
    ELSE a.filesize = p.filesize /\ a.counter = p.counter + 1

\* No blit was written yet.  last is the pair of the last blit written in
\* full (any tells whether there is one), ordered whether every blit had a
\* greater pair than the one before it, stepped whether every blit
\* followed the one before it, and count the number of blits.
NoneWritten ==
    [any |-> FALSE, last |-> [filesize |-> 0, counter |-> 0],
     ordered |-> TRUE, stepped |-> TRUE, count |-> 0]

\* The record of the blits written, after the writes ws of one run; fresh
\* tells whether the run has written data since its last blit.
RECURSIVE BlitsWritten(_, _, _)
BlitsWritten(ws, h, fresh) ==
    IF ws = <<>> THEN h
    ELSE IF Head(ws).kind = "data" THEN BlitsWritten(Tail(ws), h, TRUE)
    ELSE IF Head(ws).kind # "blit" THEN BlitsWritten(Tail(ws), h, fresh)
    ELSE BlitsWritten(Tail(ws),
            [any |-> TRUE, last |-> PairOf(Head(ws)),
             ordered |-> h.ordered
                 /\ (h.any => PairGreater(PairOf(Head(ws)), h.last)),
             stepped |-> h.stepped
                 /\ (h.any => PairFollows(PairOf(Head(ws)), h.last, fresh)),
             count |-> Min({h.count + 1, 2})],
            FALSE)

\* No slot holds a valid blit (slot 2), and no write has touched one.
NoActive == [slot |-> 2, touched |-> FALSE]

\* The cells of blit slot k, of size bs, that the write w covers.
SlotHit(w, k, bs) ==
    {i \in (w.at + 1)..(w.at + Len(w.cells)) :
        /\ i > CG_HEADER_LENGTH + k * bs
        /\ i <= CG_HEADER_LENGTH + (k + 1) * bs}

\* The slot that holds the most recent valid blit after the writes ws, and
\* whether one of them wrote into the slot that held it at the time.  A
\* whole blit makes its slot the active one.
RECURSIVE ActiveAfter(_, _, _)
ActiveAfter(ws, a, bs) ==
    IF ws = <<>> THEN a
    ELSE ActiveAfter(Tail(ws),
            [slot |-> IF Head(ws).kind = "blit"
                      THEN (Head(ws).at - CG_HEADER_LENGTH) \div bs
                      ELSE a.slot,
             touched |-> \/ a.touched
                         \/ a.slot # 2 /\ SlotHit(Head(ws), a.slot, bs) # {}],
            bs)

\* No save_missing has returned since the file was last written to.
NoSaves ==
    [again |-> FALSE, wrote |-> FALSE, clean |-> FALSE, graph |-> EmptyGraph,
     returned |-> "", flushed |-> FALSE]

\* The record of the run S of save_missing(g): again tells whether the
\* graph has not grown since the save_missing before it, wrote whether the
\* run wrote to the file, and clean whether it returned, with g saved;
\* returned is what the caller got and flushed whether flush returned Ok,
\* with no blit left to write.
SavesAfter(S, again, g) ==
    [again |-> again, wrote |-> S.writes # <<>>,
     clean |-> S.err = "", graph |-> IF S.err = "" THEN g ELSE EmptyGraph,
     returned |-> save_missing_returns(S),
     flushed |-> S.err = "" /\ ~S.cgs.dirty_blit]

\* No save has met BlitTooLarge.
NoFallback ==
    [taken |-> FALSE, at |-> 0 - 1, end |-> 0 - 1, cleared |-> FALSE,
     blit |-> FALSE, graph |-> EmptyGraph]

\* What the run S of a save did after write_blit_to gave BlitTooLarge, if
\* it did: at is the offset in the data stream its write_data went to
\* (-1 when it made none), end the value of next_write_location then,
\* cleared whether both buffers are empty at the end, blit whether the run
\* ends with a blit of empty payload that names next_write_location, and
\* graph the graph that was being saved.
FallbackOf(S, g) ==
    LET ws == S.writes
        heads == {i \in 1..Len(ws) : ws[i].kind = "head"}
        after == {i \in 1..Len(ws) : ws[i].kind = "data" /\ i > Min(heads)}
        blits == {i \in 1..Len(ws) : ws[i].kind = "blit" /\ i > Min(heads)}
    IN IF heads = {} THEN NoFallback
       ELSE [taken |-> TRUE,
             at |-> IF after = {} THEN 0 - 1
                    ELSE ws[Min(after)].at - data_start(S.cgs),
             end |-> IF after = {} THEN S.cgs.next_write_location
                     ELSE S.cgs.next_write_location
                            - Len(ws[Min(after)].cells),
             cleared |-> /\ S.cgs.last_parents.len = 0
                         /\ S.cgs.assigned_to.len = 0,
             blit |-> /\ blits # {}
                      /\ Len(ws[Max(blits)].cells) = 4
                      /\ ws[Max(blits)].cells[3].v
                           = S.cgs.next_write_location,
             graph |-> g]

\* The file after the writes of a run, made in order.
RECURSIVE ApplyWrites(_, _)
ApplyWrites(f, ws) ==
    IF ws = <<>> THEN f
    ELSE ApplyWrites(WriteAt(f, Head(ws).at, Head(ws).cells), Tail(ws))

\* ------------------------------------------------------------------------
\* One oplog and a branch over it: state
\* ------------------------------------------------------------------------
\* ListBranch::new(): version root, empty content.  The other fields record
\* the last merge: the LVs it discarded as DeleteAlreadyHappened, the
\* deletes it applied to the rope, whether both of its stages moved the
\* branch, and what a single merge_into over the same range gives.
NoBranch ==
    [version |-> {}, content |-> <<>>, already |-> {}, removed |-> {},
     staged |-> FALSE, whole |-> [rope |-> <<>>, frontier |-> {}]]

\* Nothing typed yet: no base text, no place chosen, no runs.
NoTyping ==
    [base |-> <<>>, started |-> FALSE, at |-> 0,
     runs |-> [n \in {"a", "b"} |-> <<>>]]

\* No plan made yet.
NoPlan ==
    [made |-> FALSE, prepared |-> FALSE, from |-> {}, to |-> {},
     actions |-> <<>>, err |-> "", seen |-> <<>>, final |-> {}]

\* An empty ContentTree, nothing inserted yet.
TreeNew ==
    [t |-> NewTree,
     cursor |-> [leaf_idx |-> 1, elem_idx |-> 1, offset |-> 0],
     n |-> 0, next_id |-> 1, op |-> "new", at |-> 0, cut |-> FALSE,
     leaves_before |-> 1, nodes_before |-> 0]

\* No subgraph taken yet.
NoSub ==
    [made |-> FALSE, filter |-> {}, parents |-> {}, entries |-> <<>>,
     frontier |-> <<>>, projection |-> <<>>]

\* WriteMap::new(): no agent is mapped. agent_map[a + 1] is the entry of
\* agent a; mapped = None is written -1.
WriteMapNew ==
    [agent_map |-> <<>>, next_mapped_agent |-> 0]

\* A WriteMap just made, nothing written to the id chunk, no call made.
MapStart(m) ==
    [m |-> m, ids_out |-> <<>>, firsts |-> <<>>, err |-> "",
     call |-> [op |-> "new", agent |-> 0, returned |-> 0,
               ids_before |-> <<>>, firsts_before |-> <<>>]]

StructIdle ==
    /\ tree = TreeNew
    /\ sub = NoSub
    /\ wmap = MapStart(WriteMapNew)

DocIdle ==
    /\ oplog = EmptyLog
    /\ branch = NoBranch
    /\ typing = NoTyping
    /\ planned = NoPlan

\* No journal file yet, and no process.  committed is the graph recorded by
\* the last blit written in full and inflight the graph recorded by a blit
\* the process stopped in the middle of; allowed holds both as they were
\* when the journal was last opened.  ahead tells whether, since the last
\* open, a blit was written that names a filesize beyond the data synced by
\* then.  result, slot and filesize are what
\* the last open returned and chose, and dataAt is the offset in the data
\* stream of the first write_data since (-1 when there was none).  opens
\* counts the times the journal was opened.  written is what is known of
\* the blits written in full to this journal, by any process.
NoDurable ==
    [committed |-> EmptyGraph, inflight |-> EmptyGraph,
     allowed |-> {EmptyGraph}, event |-> "none", result |-> "",
     slot |-> 2, filesize |-> 0, dataAt |-> 0 - 1, ahead |-> FALSE,
     opens |-> 0, written |-> NoneWritten, fallback |-> NoFallback,
     active |-> NoActive, saves |-> NoSaves]

JournalIdle ==
    /\ file = <<>>
    /\ cgs = NoStorage
    /\ cg = EmptyGraph
    /\ durable = NoDurable

\* ------------------------------------------------------------------------
\* The replicated oplogs: state machine
\* ------------------------------------------------------------------------
\* The (agent name, seq) identities a log holds.
Ids(log) == {<<NameOf(log, l), log.ops[l].seq>> : l \in LVs(log)}

\* Some identity is stored at more than one LV.
HasDuplicate(log) == Cardinality(Ids(log)) < Len(log.ops)

\* add_insert_at / add_delete_at: one operation by agent `name` on top of
\* the frontier `parents`.
AddOp(log, name, parents, kind, pos) ==
    LET l1 == GetOrCreateAgent(log, name)
        rec == [agent |-> AgentId(l1, name), seq |-> NextSeq(l1, name),
                parents |-> parents, kind |-> kind, pos |-> pos]
    IN [l1 EXCEPT !.ops = Append(@, rec),
                  !.version = (@ \ parents) \cup {Len(l1.ops) + 1}]

NoLast ==
    [op |-> "none", r |-> 0, s |-> 0, rep |-> 0, sync |-> FALSE,
     subset |-> FALSE, appended |-> 0, sameVersion |-> TRUE,
     unknownParent |-> FALSE]

OplogIdle ==
    /\ logs = [r \in Replicas |-> EmptyLog]
    /\ last = NoLast

OplogInit ==
    /\ OplogIdle
    /\ DocIdle
    /\ JournalIdle
    /\ StructIdle

\* Replica r makes one edit under its own name at any version of its
\* history, at a position of the document at that version.
LocalOp(r) ==
    /\ Len(logs[r].ops) < MaxOps
    /\ ~HasDuplicate(logs[r])
    /\ \E F \in Frontiers(logs[r]), kind \in {"Ins", "Del"}, pos \in 0..MaxOps :
         LET n == Len(Checkout(logs[r], F))
         IN /\ IF kind = "Ins" THEN pos <= n ELSE pos < n
            /\ logs' = [logs EXCEPT
                          ![r] = AddOp(@, OwnName(r), F, kind, pos)]
    /\ last' = [NoLast EXCEPT !.op = "local", !.r = r]
    /\ UNCHANGED <<docVars, journalVars, structVars>>

\* Every operation of dest is in src.
Subset(dest, src) == Ids(dest) \subseteq Ids(src)

\* Replica r runs logs[r].add_missing_operations_from(logs[s]), the two
\* logs holding at most n operations between them.
MergeWithin(r, s, n) ==
    /\ r # s
    /\ Cardinality(Ids(logs[r]) \cup Ids(logs[s])) <= n
    /\ LET new == add_missing_operations_from(logs[r], logs[s])
       IN /\ logs' = [logs EXCEPT ![r] = new]
          /\ last' = [op |-> "merge", r |-> r, s |-> s,
                      rep |-> IF last.op = "merge" /\ last.r = r
                              THEN 2 ELSE 1,
                      sync |-> last.op = "merge" /\ last.r = s,
                      subset |-> Subset(logs[r], logs[s]),
                      appended |-> Len(new.ops) - Len(logs[r].ops),
                      sameVersion |-> new.version = logs[r].version,
                      unknownParent |->
                          MissingParent(
                              CreateAgents(logs[r], logs[s].names), logs[s],
                              SortedSeq(to_merge(
                                  CreateAgents(logs[r], logs[s].names),
                                  logs[s])))]
    /\ UNCHANGED <<docVars, journalVars, structVars>>

Merge(r, s) == MergeWithin(r, s, MaxOps)

OplogNext ==
    \/ \E r \in Replicas : LocalOp(r)
    \/ \E r, s \in Replicas : Merge(r, s)

SpecOplog == OplogInit /\ [][OplogNext]_vars

\* The same two replicas seen through their causal graphs only: every edit
\* inserts at the start of the document, at any version of the replica's
\* history, which leaves room for longer histories.
GraphOp(r) ==
    /\ Len(logs[r].ops) < MaxGraphOps
    /\ ~HasDuplicate(logs[r])
    /\ \E F \in Frontiers(logs[r]) :
          logs' = [logs EXCEPT ![r] = AddOp(@, OwnName(r), F, "Ins", 0)]
    /\ last' = [NoLast EXCEPT !.op = "local", !.r = r]
    /\ UNCHANGED <<docVars, journalVars, structVars>>

GraphMerge(r, s) == MergeWithin(r, s, MaxGraphOps)

GraphNext ==
    \/ \E r \in Replicas : GraphOp(r)
    \/ \E r, s \in Replicas : GraphMerge(r, s)

SpecGraph == OplogInit /\ [][GraphNext]_vars

\* ------------------------------------------------------------------------
\* Properties of the oplog merge
\* ------------------------------------------------------------------------
\* C1: after A.add_missing_operations_from(B) followed by
\* B.add_missing_operations_from(A), A compares equal to B.  Here A is
\* logs[last.s] (merged first) and B is logs[last.r] (merged second).
MergeCommutes ==
    last.sync => OplogEq(logs[last.s], logs[last.r])

\* A state in which both merges ran and both logs hold operations of both
\* agents.
MergeCommutesWitness ==
    /\ last.sync
    /\ \A r \in Replicas : Cardinality({id[1] : id \in Ids(logs[r])}) = 2

\* C2: merging the same source a second time appends nothing and leaves
\* the version unchanged.
MergeIdempotent ==
    last.rep = 2 => last.appended = 0 /\ last.sameVersion

\* A repeated merge whose source is not empty.
MergeIdempotentWitness ==
    /\ last.rep = 2
    /\ Len(logs[last.s].ops) >= 2
    /\ Len(logs[last.r].ops) >= 2

\* C3: if every operation of dest is also in src, then after
\* dest.add_missing_operations_from(src) dest compares equal to src.
MergeCompletes ==
    (last.op = "merge" /\ last.subset)
        => OplogEq(logs[last.r], logs[last.s])

\* A merge of a strictly larger source into a non-empty destination.
MergeCompletesWitness ==
    /\ last.op = "merge"
    /\ last.subset
    /\ last.appended > 0
    /\ Len(logs[last.r].ops) > last.appended
    /\ OplogEq(logs[last.r], logs[last.s])

\* The LVs of `other` in the history of its version whose (agent, seq) self
\* does not hold.
MissingFrom(self, other) ==
    {l \in Anc(other, other.version) :
        <<NameOf(other, l), other.ops[l].seq>> \notin Ids(self)}

\* C37: to_merge(self, other) gives exactly the LVs of `other` that are in
\* the history of other's version and whose (agent, seq) self does not
\* know: it gives no operation self already has and leaves out none that
\* self is missing.
ToMergeIsMissing ==
    \A r, s \in Replicas :
        (~HasDuplicate(logs[r]) /\ ~HasDuplicate(logs[s])) =>
            to_merge(CreateAgents(logs[r], logs[s].names), logs[s])
                = MissingFrom(logs[r], logs[s])

\* Two logs hold the same causal graph content: the same operations under
\* the same (agent name, seq), with the same parents, whatever their LV
\* order and agent numbering.
SameGraph(A, B) ==
    /\ ~HasDuplicate(A)
    /\ ~HasDuplicate(B)
    /\ Ids(A) = Ids(B)
    /\ \A l \in LVs(A) :
          LET m == MapLv(A, B, l)
          IN /\ B.ops[m].kind = A.ops[l].kind
             /\ B.ops[m].pos = A.ops[l].pos
             /\ B.ops[m].parents = {MapLv(A, B, p) : p \in A.ops[l].parents}

\* C4: two oplogs with the same causal graph content give the same rope
\* content when merged from the empty frontier to the tip.
MergeDeterministic ==
    SameGraph(logs[1], logs[2])
        => Checkout(logs[1], logs[1].version)
             = Checkout(logs[2], logs[2].version)

\* Two logs with the same content in a different LV order and with
\* different agent numbers, holding concurrent operations.
MergeDeterministicWitness ==
    /\ SameGraph(logs[1], logs[2])
    /\ logs[1].names # logs[2].names
    /\ \E l \in LVs(logs[1]) : MapLv(logs[1], logs[2], l) # l
    /\ Cardinality(logs[1].version) >= 2
    /\ Len(Checkout(logs[1], logs[1].version)) >= 2

\* The LVs the last merge appended to its destination.
Appended == (Len(logs[last.r].ops) - last.appended + 1)..Len(logs[last.r].ops)

\* C14: after any sequence of local edits and merges, every parent of every
\* causal-graph entry is an LV strictly below the entry's first LV, the
\* parents rewritten through (agent, seq) from the other log included.
ParentsBelowStart ==
    \A r \in Replicas : \A l \in LVs(logs[r]) :
        \A p \in logs[r].ops[TxnStart(logs[r], l)].parents :
            p >= 1 /\ p < TxnStart(logs[r], l)

\* A merge appended an operation with two parents, stored in the
\* destination at other LVs than in the source: both were rewritten.
ParentsBelowStartWitness ==
    /\ last.op = "merge"
    /\ \E l \in Appended :
          LET m == MapLv(logs[last.r], logs[last.s], l)
          IN /\ m # 0
             /\ Cardinality(logs[last.r].ops[l].parents) = 2
             /\ logs[last.s].ops[m].parents \cap logs[last.r].ops[l].parents
                    = {}

\* C15: the version an oplog stores is always in dominator form: after
\* every merge (and every edit) no member of the frontier is an ancestor of,
\* or equal to, another member.
VersionIsDominators ==
    \A r \in Replicas :
        /\ logs[r].version \subseteq LVs(logs[r])
        /\ Dominators(logs[r], logs[r].version) = logs[r].version

\* A merge appended operations below some of which the destination's old
\* heads lay, and left a frontier of two concurrent versions.
VersionIsDominatorsWitness ==
    /\ last.op = "merge"
    /\ last.appended >= 2
    /\ ~last.sameVersion
    /\ Cardinality(logs[last.r].version) = 2
    /\ \E l \in Appended : \E p \in logs[last.r].ops[l].parents :
          p \notin Appended

Stored(log, from) ==
    [i \in 1..(Len(log.ops) - from + 1) |->
        LET l == from + i - 1
        IN <<NameOf(log, l), log.ops[l].seq, log.ops[l].kind,
             log.ops[l].pos>>]

\* a can be had from b by leaving elements out: a keeps the order of b.
RECURSIVE InOrderOf(_, _)
InOrderOf(a, b) ==
    IF a = <<>> THEN TRUE
    ELSE IF b = <<>> THEN FALSE
    ELSE IF Head(a) = Head(b) THEN InOrderOf(Tail(a), Tail(b))
    ELSE InOrderOf(a, Tail(b))

\* C17: the log is append-only under merging: add_missing_operations_from
\* leaves everything recorded for the LVs below the old length (and every
\* agent number) as it was, and the operations it adds take the LVs from the
\* old length upward in the order the source stores them.
MergeAppendsOnly ==
    [][last'.op = "merge" =>
          /\ Len(logs'[last'.r].ops) >= Len(logs[last'.r].ops)
          /\ SubSeq(logs'[last'.r].ops, 1, Len(logs[last'.r].ops))
                = logs[last'.r].ops
          /\ SubSeq(logs'[last'.r].names, 1, Len(logs[last'.r].names))
                = logs[last'.r].names
          /\ InOrderOf(Stored(logs'[last'.r], Len(logs[last'.r].ops) + 1),
                       Stored(logs[last'.s], 1))]_vars

\* A merge appended two or more operations, not all of the source's, to a
\* log that held operations of its own.
MergeAppendsOnlyWitness ==
    /\ last.op = "merge"
    /\ last.appended >= 2
    /\ Len(logs[last.r].ops) > last.appended
    /\ Len(logs[last.s].ops) > last.appended

\* ------------------------------------------------------------------------
\* Two agents typing at the same place of one oplog
\* ------------------------------------------------------------------------
\* One more character of the base text, typed at its end by any agent on
\* top of everything typed before.
TypeBase(name) ==
    /\ ~typing.started
    /\ Len(typing.base) < MaxBase
    /\ oplog' = AddOp(oplog, name, oplog.version, "Ins", Len(typing.base))
    /\ typing' = [typing EXCEPT
                    !.base = Append(@, <<name, NextSeq(oplog, name)>>)]
    /\ UNCHANGED <<branch, planned, logs, last, journalVars, structVars>>

\* Agent `name` types the next character of its run.  Both runs start at
\* position p of the base text, on top of the base text only; each
\* character follows the one its agent typed before.
Type(name, p) ==
    LET run == typing.runs[name]
        parents ==
            IF run # <<>> THEN {LvOf(oplog, name, run[Len(run)][2])}
            ELSE IF typing.base = <<>> THEN {} ELSE {Len(typing.base)}
    IN /\ Len(run) < MaxRun
       /\ typing.started => p = typing.at
       /\ oplog' = AddOp(oplog, name, parents, "Ins", p + Len(run))
       /\ typing' = [typing EXCEPT
                       !.started = TRUE,
                       !.at = p,
                       !.runs[name] = Append(@, <<name, NextSeq(oplog, name)>>)]
       /\ UNCHANGED <<branch, planned, logs, last, journalVars, structVars>>

TypeInit ==
    /\ OplogIdle
    /\ DocIdle
    /\ JournalIdle
    /\ StructIdle

TypeNext ==
    \/ \E name \in {"a", "b"} : TypeBase(name)
    \/ \E name \in {"a", "b"}, p \in 0..MaxBase :
          p <= Len(typing.base) /\ Type(name, p)

SpecType == TypeInit /\ [][TypeNext]_vars

\* C5: concurrent inserts at the same position by agents "a" and "b" come
\* out with the run of "a" first, whatever the order the operations were
\* received in: the base text up to the position, all that "a" typed, all
\* that "b" typed, the rest of the base text.
TieBreakByName ==
    Checkout(oplog, oplog.version)
        = SubSeq(typing.base, 1, typing.at)
            \o typing.runs["a"] \o typing.runs["b"]
            \o SubSeq(typing.base, typing.at + 1, Len(typing.base))

\* "aaa" and "bbb" typed at 0 of the empty document, the first operation
\* of the log being one of "b": the text is "aaabbb".
TieBreakByNameWitness ==
    /\ typing.base = <<>>
    /\ Len(oplog.ops) = 6
    /\ NameOf(oplog, 1) = "b"
    /\ Text(Checkout(oplog, oplog.version)) = <<"a", "a", "a", "b", "b", "b">>

\* ------------------------------------------------------------------------
\* One oplog edited by two agents, and a branch merging from it
\* ------------------------------------------------------------------------
\* add_insert_at / add_delete_at(name, parents, ...): agent `name` makes
\* one edit at any version of the history, at a position of the document
\* at that version.
Edit(name) ==
    /\ Len(oplog.ops) < MaxEdits
    /\ \E F \in Frontiers(oplog), kind \in {"Ins", "Del"}, pos \in 0..MaxEdits :
         LET n == Len(Checkout(oplog, F))
         IN /\ IF kind = "Ins" THEN pos <= n ELSE pos < n
            /\ oplog' = AddOp(oplog, name, F, kind, pos)
    /\ UNCHANGED <<branch, typing, planned, logs, last, journalVars, structVars>>

\* The branch is merged up to `to` in two calls, through the intermediate
\* frontier v: merge_into(rope, version, v), then
\* merge_into(rope, <returned frontier>, to).
\* The branch after the two stages s1 and s2, with the result `one` of the
\* single merge recorded beside it.
MergeRecord(version, s1, s2, one) ==
    [version |-> s2.frontier,
     content |-> s2.rope,
     already |-> s1.already \cup s2.already,
     removed |-> s1.removed \cup s2.removed,
     staged |-> /\ s1.frontier # version
                /\ s2.frontier # s1.frontier,
     whole |-> [rope |-> one.rope, frontier |-> one.frontier]]

\* The second stage starts from the rope and the frontier the first one
\* returned.
StagedMerge(log, b, s1, to) ==
    MergeRecord(b.version, s1, merge_into(log, s1.rope, s1.frontier, to),
                merge_into(log, b.content, b.version, to))

BranchMerge(v, to) ==
    /\ v \subseteq Anc(oplog, branch.version \cup to)
    /\ branch' = StagedMerge(oplog, branch,
                     merge_into(oplog, branch.content, branch.version, v), to)
    /\ UNCHANGED <<oplog, typing, planned, logs, last, journalVars, structVars>>

DocInit ==
    /\ OplogIdle
    /\ DocIdle
    /\ JournalIdle
    /\ StructIdle

DocNext ==
    \/ \E name \in {"a", "b"} : Edit(name)
    \/ \E v \in Frontiers(oplog), to \in Frontiers(oplog) : BranchMerge(v, to)

SpecDoc == DocInit /\ [][DocNext]_vars

\* The inserts the tracker integrates while merge_into runs its plan, each
\* with the range tree it is integrated into (the tracker moved to the
\* parents of the insert).
RECURSIVE IntegratedLoop(_, _, _, _)
IntegratedLoop(log, m, steps, zoneLvs) ==
    IF steps = <<>> THEN {}
    ELSE LET s == Head(steps)
         IN (IF \/ s.output /\ CriticalPath(log, zoneLvs, s.lv)
                \/ log.ops[s.lv].kind # "Ins"
             THEN {}
             ELSE {[lv |-> s.lv, items |-> MoveTo(log, m.tr, s.lv).items]})
            \cup IntegratedLoop(log,
                     PlanStep(log, m, s.lv, zoneLvs, s.output),
                     Tail(steps), zoneLvs)

PlanSteps(lvs, output) ==
    [i \in 1..Len(lvs) |-> [lv |-> lvs[i], output |-> output]]

Integrated(log, rope, from, merge_frontier) ==
    LET conflict == find_conflicting(log, from, merge_frontier)
        zoneLvs == {z.lv : z \in conflict.zone}
        prep == {z.lv : z \in {y \in conflict.zone : y.flag # "B"}}
        out == {z.lv : z \in {y \in conflict.zone : y.flag = "B"}}
        m0 == [tr |-> NewTracker, rope |-> rope, dirty |-> FALSE,
               already |-> {}, removed |-> {}]
    IN IntegratedLoop(log, m0,
           PlanSteps(SortedSeq(prep), FALSE) \o PlanSteps(SortedSeq(out), TRUE),
           zoneLvs)

\* The inserts integrated by any merge the branch can make next.
BranchIntegrated ==
    UNION {Integrated(oplog, branch.content, branch.version, to) :
             to \in Frontiers(oplog)}

\* The LenPair of the cursor at the place the insert g went to: the number
\* of items left of it in the range tree after the insert.
InsertedAt(g) ==
    get_pos(g.items, IdxOf(ApplyIns(oplog, g.items, g.lv).items, g.lv) - 1)

\* C27 as stated: the position emitted with every integrated insert is the
\* `cur` metric of the cursor at the place the item is inserted.
XfIsCursorCur ==
    \A g \in BranchIntegrated :
        ApplyIns(oplog, g.items, g.lv).xf = InsertedAt(g).cur

\* C27: the position emitted with every integrated insert is the `end`
\* metric of the cursor at the place the item is inserted, the position in
\* the document being merged into.
XfIsCursorEnd ==
    \A g \in BranchIntegrated :
        ApplyIns(oplog, g.items, g.lv).xf = InsertedAt(g).end

\* An insert that went in behind an item which is not inserted at the
\* parents of the insert: the cursor's cur and end differ there.
XfIsCursorEndWitness ==
    \E g \in BranchIntegrated :
        /\ InsertedAt(g).cur # InsertedAt(g).end
        /\ ApplyIns(oplog, g.items, g.lv).xf = InsertedAt(g).end

\* The actions of the plan for the step lv, when the tracker's version is
\* t.cur, it holds t.applied and t.dirty tells whether it holds anything:
\* Clear if the tracker is dirty and FF(lv) for a step that gives output on
\* the critical path, and otherwise the Retreats and Advances that take the
\* tracker to the parents of lv and Apply(lv).
StepActions(log, t, lv, zoneLvs, output) ==
    IF output /\ CriticalPath(log, zoneLvs, lv)
    THEN (IF t.dirty THEN <<[kind |-> "Clear", lv |-> 0]>> ELSE <<>>)
            \o <<[kind |-> "FF", lv |-> lv]>>
    ELSE LET want == Anc(log, log.ops[lv].parents) \cap t.applied
             back == Reversed(SortedSeq(t.cur \ want))
             forth == SortedSeq(want \ t.cur)
         IN [k \in 1..Len(back) |-> [kind |-> "Retreat", lv |-> back[k]]]
            \o [k \in 1..Len(forth) |-> [kind |-> "Advance", lv |-> forth[k]]]
            \o <<[kind |-> "Apply", lv |-> lv]>>

\* What the tracker holds after the actions of the step lv.
StepTracker(log, t, lv, zoneLvs, output) ==
    IF output /\ CriticalPath(log, zoneLvs, lv)
    THEN [cur |-> IF t.dirty THEN {} ELSE t.cur,
          applied |-> IF t.dirty THEN {} ELSE t.applied, dirty |-> FALSE]
    ELSE [cur |-> (Anc(log, log.ops[lv].parents) \cap t.applied) \cup {lv},
          applied |-> t.applied \cup {lv}, dirty |-> TRUE]

RECURSIVE StepsActions(_, _, _, _, _)
StepsActions(log, t, lvs, zoneLvs, output) ==
    IF lvs = <<>> THEN [actions |-> <<>>, t |-> t]
    ELSE LET rest == StepsActions(log,
                         StepTracker(log, t, Head(lvs), zoneLvs, output),
                         Tail(lvs), zoneLvs, output)
         IN [actions |-> StepActions(log, t, Head(lvs), zoneLvs, output)
                            \o rest.actions,
             t |-> rest.t]

\* The plan merge_into iterates over: the actions that take the tracker
\* over what the document holds of the conflict zone, BeginOutput, and the
\* actions for the operations to merge.
m1_plan(log, from, merge_frontier) ==
    LET conflict == find_conflicting(log, from, merge_frontier)
        zoneLvs == {z.lv : z \in conflict.zone}
        prep == {z.lv : z \in {y \in conflict.zone : y.flag # "B"}}
        out == {z.lv : z \in {y \in conflict.zone : y.flag = "B"}}
        p1 == StepsActions(log, [cur |-> {}, applied |-> {}, dirty |-> FALSE],
                           SortedSeq(prep), zoneLvs, FALSE)
        p2 == StepsActions(log, p1.t, SortedSeq(out), zoneLvs, TRUE)
    IN p1.actions \o <<[kind |-> "BeginOutput", lv |-> 0]>> \o p2.actions

\* An iterator that gives the result of every Apply, applying or not.
IterActionEager(it, act, at, debug) ==
    IF it.err # "" THEN it
    ELSE IF act.kind = "BeginOutput" THEN [it EXCEPT !.applying = TRUE]
    ELSE IF act.kind = "FF"
    THEN IF debug /\ ~it.applying THEN [it EXCEPT !.err = "panic"]
         ELSE [it EXCEPT !.emitted = Append(@, [at |-> at, kind |-> "FF",
                                               lv |-> act.lv,
                                               applying |-> it.applying])]
    ELSE IF act.kind = "Apply"
    THEN [it EXCEPT !.fed = Append(@, [at |-> at, call |-> "apply"]),
                    !.emitted = Append(@, [at |-> at, kind |-> "Apply",
                                           lv |-> act.lv,
                                           applying |-> it.applying])]
    ELSE [it EXCEPT !.fed = Append(@, [at |-> at, call |-> act.kind])]

\* TransformedOpsIterRaw::next at the action act, the at-th of the plan, in
\* a build with (debug) or without debug assertions.  it holds the flag
\* applying, the results returned (emitted) with the place of the action
\* they came from, the calls made to the tracker (fed) and "panic" if a
\* debug assertion failed.
IterAction(it, act, at, debug) ==
    IF it.err # "" THEN it
    ELSE IF act.kind = "BeginOutput" THEN [it EXCEPT !.applying = TRUE]
    ELSE IF act.kind = "FF"
    THEN IF debug /\ ~it.applying THEN [it EXCEPT !.err = "panic"]
         ELSE [it EXCEPT !.emitted = Append(@, [at |-> at, kind |-> "FF",
                                               lv |-> act.lv,
                                               applying |-> it.applying])]
    ELSE IF act.kind = "Apply"
    THEN IF ~it.applying
         THEN [it EXCEPT !.fed = Append(@, [at |-> at, call |-> "apply_range"])]
         ELSE [it EXCEPT !.fed = Append(@, [at |-> at, call |-> "apply"]),
                         !.emitted = Append(@, [at |-> at, kind |-> "Apply",
                                                lv |-> act.lv,
                                                applying |-> it.applying])]
    ELSE [it EXCEPT !.fed = Append(@, [at |-> at, call |-> act.kind])]

\* The iterator taken to its end: next is called until it returns None.
RECURSIVE IterLoop(_, _, _, _)
IterLoop(it, plan, at, debug) ==
    IF at > Len(plan) THEN it
    ELSE IterLoop(IterAction(it, plan[at], at, debug), plan, at + 1, debug)

TransformedOps(plan, debug) ==
    IterLoop([applying |-> FALSE, emitted |-> <<>>, fed |-> <<>>, err |-> ""],
             plan, 1, debug)

\* The place of BeginOutput in a plan.
BeginOutputAt(plan) ==
    CHOOSE k \in 1..Len(plan) : plan[k].kind = "BeginOutput"

\* The iterator over `plan` gives nothing for the actions before
\* BeginOutput, whose Apply, Retreat, Advance and Clear only go to the
\* tracker, and it meets every FF after BeginOutput.
QuietBeforeOutput(plan, debug) ==
    LET it == TransformedOps(plan, debug)
        b == BeginOutputAt(plan)
    IN /\ it.err = ""
       /\ \A k \in 1..Len(it.emitted) : it.emitted[k].at > b
       /\ \A k \in 1..(b - 1) :
             \E f \in 1..Len(it.fed) :
                /\ it.fed[f].at = k
                /\ it.fed[f].call = IF plan[k].kind = "Apply"
                                    THEN "apply_range" ELSE plan[k].kind
       /\ \A k \in 1..Len(plan) : plan[k].kind = "FF" => k > b
       /\ \A k \in 1..Len(it.emitted) :
             it.emitted[k].kind = "FF" => it.emitted[k].applying

Tracked ==
    LET all == {l \in 1..Len(oplog.ops) : TRUE}
        m == RunPlan(oplog, [tr |-> NewTracker, rope |-> <<>>, dirty |-> FALSE,
                             already |-> {}, removed |-> {}],
                     SortedSeq(all), all, FALSE)
    IN AdvanceAll(oplog, m.tr, m.tr.applied \ m.tr.cur)

\* The ranges the tracker T can retreat over: operations it stands on, with
\* every operation that descends from them.
RetreatRanges(T) ==
    {S \in SUBSET T.cur :
        \A l \in T.cur \ S : Anc(oplog, {l}) \cap S = {}}

\* The operations of S that act on the item with the given id.
ActingOn(T, S, id) == {l \in S : TargetOf(oplog, T, l) = id}

\* Retreat over the range S of the tracker T takes every item the range
\* inserted to NOT_INSERTED_YET and every item one delete down for each of
\* its deletes in the range, and advancing over S again gives T.
RetreatInverts(T, S) ==
    LET R == RetreatAll(oplog, T, S)
    IN /\ \A l \in S :
             oplog.ops[l].kind = "Ins" => R.items[IdxOf(R.items, l)].st = 0
       /\ \A i \in 1..Len(T.items) :
             /\ R.items[i].id = T.items[i].id
             /\ R.items[i].st = T.items[i].st
                                  - Cardinality(ActingOn(T, S, T.items[i].id))
       /\ AdvanceAll(oplog, R, S) = T

PlanEdit(F) ==
    /\ ~planned.made
    /\ Len(oplog.ops) < MaxPlanOps
    /\ oplog' = AddOp(oplog, "a", F, "Ins", 0)
    /\ UNCHANGED <<branch, typing, planned, logs, last, journalVars, structVars>>

\* The record of a plan p made between a and b, and of what dbg_check met
\* when following it.
PlanRecord(a, b, prep, p, run) ==
    [made |-> TRUE, prepared |-> prep, from |-> a, to |-> b,
     actions |-> p.actions, err |-> p.err, seen |-> run.seen,
     final |-> run.max]

PlanChecked(log, a, b, prep, p) ==
    PlanRecord(a, b, prep, p, dbg_check(log, p.actions, a, b))

\* The plan of a subgraph, after prepare (test_simple_graph) or without it
\* (fuzz_m1_plans).
PlanOf(g, prep) ==
    make_m1_plan(g, IF prep THEN prepare(g) ELSE unprepared(g))

\* make_conflict_graph_between(a, b), prepare or not, make_m1_plan, and
\* plan.dbg_check(a, b, graph).
MakePlan(a, b, asc, prep) ==
    /\ ~planned.made
    /\ planned' = PlanChecked(oplog, a, b, prep,
                      PlanOf(make_conflict_graph_between(oplog, a, b, asc),
                             prep))
    /\ UNCHANGED <<oplog, branch, typing, logs, last, journalVars, structVars>>

\* The plan is dropped.
DropPlan ==
    /\ planned.made
    /\ planned' = NoPlan
    /\ UNCHANGED <<oplog, branch, typing, logs, last, journalVars, structVars>>

PlanInit ==
    /\ OplogIdle
    /\ DocIdle
    /\ JournalIdle
    /\ StructIdle

PlanNext ==
    \/ /\ ~planned.made
       /\ \E F \in Frontiers(oplog) : PlanEdit(F)
    \/ /\ ~planned.made
       /\ \E a \in Frontiers(oplog), b \in Frontiers(oplog),
             asc \in BOOLEAN, prep \in BOOLEAN :
             MakePlan(a, b, asc, prep)
    \/ DropPlan

SpecPlan == PlanInit /\ [][PlanNext]_vars

\* The kinds of the actions of the last plan.
PlanKinds == {planned.actions[k].kind : k \in 1..Len(planned.actions)}

\* The LVs in the history of `to` and not of `from`.
Between(log, from, to) == Anc(log, to) \ Anc(log, from)

\* `from` is an ancestor of `to` and the history between them is linear:
\* the first operation past `from` has `from` as its parents, each later
\* one has the one before it as its only parent, and `to` is the last.
LinearBetween(log, from, to) ==
    LET bt == Between(log, from, to)
    IN /\ bt # {}
       /\ Anc(log, from) \subseteq Anc(log, to)
       /\ to = {Max(bt)}
       /\ \A l \in bt :
             log.ops[l].parents =
                 IF l = Min(bt) THEN from ELSE {Max({x \in bt : x < l})}

\* C18: when `from` is an ancestor of `to` and the history between them is
\* linear (every span between them is on the critical path), the plan of
\* the prepared subgraph holds FF actions only, one for every operation
\* between them: no Apply, no Advance, no Retreat.
LinearPlanIsFF ==
    (/\ planned.made
     /\ planned.prepared
     /\ LinearBetween(oplog, planned.from, planned.to))
        => /\ planned.err = ""
           /\ PlanKinds = {"FF"}
           /\ {planned.actions[k].lv : k \in 1..Len(planned.actions)}
                = Between(oplog, planned.from, planned.to)

\* A plan from a version with two heads to a descendant two operations
\* further on, beside a concurrent branch.
LinearPlanIsFFWitness ==
    /\ planned.made
    /\ planned.prepared
    /\ Cardinality(planned.from) = 2
    /\ LinearBetween(oplog, planned.from, planned.to)
    /\ Cardinality(Between(oplog, planned.from, planned.to)) >= 2
    /\ Cardinality(oplog.version) >= 2
    /\ PlanKinds = {"FF"}

\* The places of the actions of kind K in the last plan.
PlacesOf(K) == {k \in 1..Len(planned.actions) : planned.actions[k].kind = K}

\* C34: in every plan, an FF that comes after an Apply is separated from
\* the last Apply before it by a Clear, and a Clear comes only when there
\* was an Apply since the Clear before it, or since the start of the plan.
ClearBetweenApplyAndFF ==
    planned.made =>
        /\ \A k \in PlacesOf("FF") :
              \A j \in PlacesOf("Apply") :
                 j < k => \E c \in PlacesOf("Clear") : j < c /\ c < k
        /\ \A c \in PlacesOf("Clear") :
              \E j \in PlacesOf("Apply") :
                 /\ j < c
                 /\ \A d \in PlacesOf("Clear") : ~(j < d /\ d < c)

\* A plan that applies two concurrent operations, clears the tracker and
\* fast-forwards over what follows their merge.
ClearBetweenApplyAndFFWitness ==
    /\ planned.made
    /\ planned.err = ""
    /\ Cardinality(PlacesOf("Apply")) >= 2
    /\ PlacesOf("Retreat") # {}
    /\ \E c \in PlacesOf("Clear") :
          /\ \E j \in PlacesOf("Apply") : j < c
          /\ \E k \in PlacesOf("FF") : c < k
    /\ \E k \in PlacesOf("FF") : \A j \in PlacesOf("Apply") : k < j

\* The spans of the conflict subgraph the last plan was made of that are not
\* empty.
PlannedSpans ==
    LET g == make_conflict_graph_between(oplog, planned.from, planned.to, TRUE)
    IN {g[i].span : i \in 1..Len(g)} \ {0}

\* C38: make_m1_plan returns for every conflict subgraph: it enters no
\* entry it has visited and does not come to an empty stack with spans left
\* (no assertion fails, no panic), and it stops once every span that is not
\* empty has got its Apply or FF, which is the last action of the plan.
PlanTerminates ==
    planned.made =>
        /\ planned.err = ""
        /\ {planned.actions[k].lv : k \in PlacesOf("Apply") \cup PlacesOf("FF")}
              = PlannedSpans
        /\ Cardinality(PlacesOf("Apply") \cup PlacesOf("FF"))
              = Cardinality(PlannedSpans)
        /\ planned.actions # <<>> =>
              planned.actions[Len(planned.actions)].kind \in {"Apply", "FF"}

\* A plan over a subgraph of four spans, with an entry whose span is
\* empty, that goes back over an operation.
PlanTerminatesWitness ==
    /\ planned.made
    /\ planned.err = ""
    /\ Cardinality(PlannedSpans) >= 4
    /\ Len(make_conflict_graph_between(oplog, planned.from, planned.to, TRUE))
          > Cardinality(PlannedSpans)
    /\ PlacesOf("Retreat") # {}
    /\ planned.actions[Len(planned.actions)].kind \in {"Apply", "FF"}

\* What dbg_check met at the actions of the last plan that are of the kinds
\* in K.
SeenOf(K) ==
    {planned.seen[k] : k \in {j \in 1..Len(planned.seen) :
                                 planned.seen[j].kind \in K}}

\* C19: following a plan from the common ancestor, every Apply and FF
\* names an operation that is not yet in the applied versions, and comes
\* when the tracker's frontier is exactly the parents of that operation; no
\* operation is applied twice.
AppliedOnceAtParents ==
    planned.made =>
        /\ planned.err = ""
        /\ \A s \in SeenOf({"Apply", "FF"}) : ~s.applied /\ s.atParents
        /\ \A j, k \in 1..Len(planned.actions) :
              (/\ j # k
               /\ planned.actions[j].kind \in {"Apply", "FF"}
               /\ planned.actions[k].kind \in {"Apply", "FF"})
                  => planned.actions[j].lv # planned.actions[k].lv

\* A plan over concurrent branches: three operations or more are applied,
\* and the tracker goes back before one whose parents are not the operation
\* stored before it.
AppliedOnceAtParentsWitness ==
    /\ planned.made
    /\ Cardinality(SeenOf({"Apply"})) >= 3
    /\ SeenOf({"Retreat"}) # {}
    /\ \A s \in SeenOf({"Apply", "FF"}) : ~s.applied /\ s.atParents
    /\ \E s \in SeenOf({"Apply"}) :
          oplog.ops[s.lv].parents # {} /\ s.lv - 1 \notin oplog.ops[s.lv].parents

\* C20: every Retreat names an applied operation that is a member of the
\* tracker's frontier; every Advance names an applied operation that is not
\* in the tracker's version and whose parents all are.
RetreatAdvanceInOrder ==
    planned.made =>
        /\ \A s \in SeenOf({"Retreat"}) : s.applied /\ s.atEnd
        /\ \A s \in SeenOf({"Advance"}) :
              s.applied /\ ~s.inCurrent /\ s.parentsIn

\* A plan that retreats over two operations in a row and advances over two
\* in a row.
RetreatAdvanceInOrderWitness ==
    /\ planned.made
    /\ \E k \in 1..(Len(planned.seen) - 1) :
          /\ planned.seen[k].kind = "Retreat"
          /\ planned.seen[k + 1].kind = "Retreat"
          /\ planned.seen[k].atEnd /\ planned.seen[k + 1].atEnd
    /\ \E k \in 1..(Len(planned.seen) - 1) :
          /\ planned.seen[k].kind = "Advance"
          /\ planned.seen[k + 1].kind = "Advance"
          /\ planned.seen[k].parentsIn /\ planned.seen[k + 1].parentsIn

\* C21: a plan made for the frontiers a and b covers the conflict zone:
\* once all its actions have run from the common ancestor, the frontier of
\* what Apply and FF applied is find_dominators_2(a, b).
PlanCoversZone ==
    planned.made =>
        planned.final = Dominators(oplog, planned.from \cup planned.to)

\* A plan between two versions neither of which holds the other, that goes
\* back over an operation and ends on a version with two heads.
PlanCoversZoneWitness ==
    /\ planned.made
    /\ planned.from # {} /\ planned.to # {}
    /\ ~(planned.from \subseteq Anc(oplog, planned.to))
    /\ ~(planned.to \subseteq Anc(oplog, planned.from))
    /\ SeenOf({"Retreat"}) # {}
    /\ Cardinality(planned.final) >= 2
    /\ planned.final = Dominators(oplog, planned.from \cup planned.to)

\* The character a delete removes: the one at its position in the document
\* at the version the delete was made at.
DeleteTarget(log, lv) ==
    Checkout(log, log.ops[lv].parents)[log.ops[lv].pos + 1]

\* The characters inserted, and those deleted, by the operations in H.
InsertedBy(log, H) ==
    {ContentOf(log, l) : l \in {k \in H : log.ops[k].kind = "Ins"}}

DeletedBy(log, H) ==
    {DeleteTarget(log, l) : l \in {k \in H : log.ops[k].kind = "Del"}}

\* C6: a character deleted by concurrent deletes is removed exactly once:
\* the branch holds, once each, the characters inserted and not deleted in
\* its history; no two deletes the merge applied to the rope have the same
\* target; and every delete the merge discarded as DeleteAlreadyHappened has
\* a target some other delete also has.
DoubleDeleteOnce ==
    LET H == Anc(oplog, branch.version)
        chars == {branch.content[i] : i \in 1..Len(branch.content)}
    IN /\ chars = InsertedBy(oplog, H) \ DeletedBy(oplog, H)
       /\ Cardinality(chars) = Len(branch.content)
       /\ \A d, e \in branch.removed :
             d # e => DeleteTarget(oplog, d) # DeleteTarget(oplog, e)
       /\ \A d \in branch.already :
             \E e \in H \ {d} :
                /\ oplog.ops[e].kind = "Del"
                /\ DeleteTarget(oplog, e) = DeleteTarget(oplog, d)

\* The last merge brought in two deletes of the same character: it applied
\* one to the rope and discarded the other as DeleteAlreadyHappened.
DoubleDeleteOnceWitness ==
    \E d \in branch.already, e \in branch.removed :
        /\ {d, e} \subseteq Anc(oplog, branch.version)
        /\ DeleteTarget(oplog, d) = DeleteTarget(oplog, e)

\* C7: merging in two stages leaves the same text as one merge_into from
\* the same start to the same target, and the frontier returned is the
\* dominator set of the start and the target.
StagedMergeEqualsWhole ==
    /\ branch.content = branch.whole.rope
    /\ branch.version = branch.whole.frontier

\* A merge both stages of which moved the branch, over concurrent history.
StagedMergeEqualsWholeWitness ==
    /\ branch.staged
    /\ Cardinality(branch.version) >= 2
    /\ Len(branch.content) >= 2

\* ------------------------------------------------------------------------
\* The journal: a process that opens it, assigns versions, saves and stops
\* ------------------------------------------------------------------------
\* The graph recorded by the last whole blit among the writes, or `old`.
RECURSIVE LastBlitRec(_, _)
LastBlitRec(ws, old) ==
    IF ws = <<>> THEN old
    ELSE LastBlitRec(Tail(ws),
            IF Head(ws).kind = "blit" THEN Head(ws).rec ELSE old)

\* The offset in the data stream of the first write_data among the writes,
\* or `old` when that is already known or there is none.
FirstDataAt(ws, ds, old) ==
    LET d == {i \in 1..Len(ws) : ws[i].kind = "data"}
    IN IF old # 0 - 1 \/ d = {} THEN old ELSE ws[Min(d)].at - ds

\* Whether some blit among the writes names a filesize beyond the part of
\* the data stream that was synced when the blit was written.  len is the
\* length of the file and synced the length of it that is on disk; the data
\* stream starts at ds.
RECURSIVE BlitAhead(_, _, _, _)
BlitAhead(ws, len, synced, ds) ==
    IF ws = <<>> THEN FALSE
    ELSE LET w == Head(ws)
         IN CASE w.kind = "sync" -> BlitAhead(Tail(ws), len, len, ds)
              [] w.kind = "blit" ->
                   \/ w.cells[3].v > synced - ds
                   \/ BlitAhead(Tail(ws), len, synced, ds)
              [] OTHER ->
                   BlitAhead(Tail(ws), Max({len, w.at + Len(w.cells)}),
                             synced, ds)

\* A process opens the journal, in a build with or without debug
\* assertions.
\* The state open leaves when it gives r: the file, the storage and the
\* graph it returns, and the record of what it chose.
Opened(r) ==
    /\ file' = r.file
    /\ cgs' = r.cgs
    /\ cg' = r.cg
    /\ durable' =
         [committed |-> IF r.result = "ok" THEN r.cg ELSE durable.committed,
          inflight |-> IF r.result = "ok" THEN r.cg ELSE durable.inflight,
          allowed |-> {durable.committed, durable.inflight},
          event |-> "open", result |-> r.result, slot |-> r.slot,
          filesize |-> r.filesize, dataAt |-> 0 - 1, ahead |-> FALSE,
          opens |-> durable.opens + 1, written |-> durable.written,
          fallback |-> durable.fallback,
          active |-> [slot |-> r.slot, touched |-> durable.active.touched],
          saves |-> durable.saves]

Open(debug) ==
    /\ ~cgs.live
    /\ durable.opens < MaxOpens
    /\ Opened(open(file, debug))
    /\ UNCHANGED <<oplogVars, docVars, structVars>>

\* cg.assign_op(parents, agent, 1): one more version, on top of the last
\* one or of nothing.
Assign(name, linear) ==
    /\ cgs.live
    /\ Len(cg.parents) < MaxEntries
    /\ Len(cg.agents) < MaxEntries
    /\ linear => Len(cg.parents) > 0
    /\ LET seqs == {cg.agents[i][2] :
                      i \in {k \in 1..Len(cg.agents) : cg.agents[k][1] = name}}
       IN cg' = [parents |-> Append(cg.parents,
                               IF linear THEN {Len(cg.parents)} ELSE {}),
                 agents |-> Append(cg.agents,
                               <<name, IF seqs = {} THEN 0
                                       ELSE Max(seqs) + 1>>)]
    /\ durable' = [durable EXCEPT !.event = "assign"]
    /\ UNCHANGED <<file, cgs, oplogVars, docVars, structVars>>

\* cgs.save_missing(cg) runs to its end: it returns, or it panics on a
\* debug assertion and the process is gone.
\* The state the run S of save_missing leaves: its writes are in the file,
\* and a panic takes the process with it.
Saved(S) ==
    /\ file' = ApplyWrites(file, S.writes)
    /\ cgs' = IF S.err = "panic" THEN NoStorage ELSE S.cgs
    /\ cg' = IF S.err = "panic" THEN EmptyGraph ELSE cg
    /\ durable' =
         [durable EXCEPT
            !.event = "save",
            !.committed = LastBlitRec(S.writes, @),
            !.inflight = LastBlitRec(S.writes, durable.committed),
            !.dataAt = FirstDataAt(S.writes, data_start(cgs), @),
            !.ahead = @ \/ BlitAhead(S.writes, Len(file), Len(file),
                                     data_start(cgs)),
            !.written = BlitsWritten(S.writes, @, FALSE),
            !.fallback = IF S.writes = <<>> THEN @ ELSE FallbackOf(S, cg),
            !.active = ActiveAfter(S.writes, @, cgs.blit_size),
            !.saves = SavesAfter(S, durable.event = "save", cg)]

SaveMissing ==
    /\ cgs.live
    /\ Len(file) <= MaxFile
    /\ data_start(cgs) + cgs.next_write_location <= MaxFile
    /\ Saved(save_missing(cgs, cg))
    /\ UNCHANGED <<oplogVars, docVars, structVars>>

\* The blit w, of which only the first t cells were written into the file
\* f, is in the file all the same: the cells that were not written hold
\* what the blit would have put there.
Landed(f, w, t) ==
    /\ w.kind = "blit"
    /\ \A i \in (t + 1)..Len(w.cells) :
          /\ w.at + i <= Len(f)
          /\ f[w.at + i].t = w.cells[i].t
          /\ f[w.at + i] = w.cells[i]

\* The state of the file and of the record of what is durable when the
\* process stops after k of the writes ws were made in full and t cells of
\* the next one.
StoppedAt(ws, k, t) ==
    LET done == SubSeq(ws, 1, k)
    IN /\ file' = WriteAt(ApplyWrites(file, done), ws[k + 1].at,
                          SubSeq(ws[k + 1].cells, 1, t))
       /\ durable' =
            [durable EXCEPT
               !.event = "stop",
               !.committed = LastBlitRec(done, @),
               !.inflight =
                   IF t > 0 /\ ws[k + 1].kind = "blit"
                   THEN ws[k + 1].rec
                   ELSE LastBlitRec(done, durable.committed),
               !.dataAt = FirstDataAt(SubSeq(ws, 1, k + 1),
                                      data_start(cgs), @),
               !.ahead = @ \/ BlitAhead(SubSeq(ws, 1, IF t > 0 THEN k + 1
                                                      ELSE k),
                                        Len(file), Len(file),
                                        data_start(cgs)),
               !.written =
                   BlitsWritten(IF Landed(ApplyWrites(file, done),
                                          ws[k + 1], t)
                                THEN SubSeq(ws, 1, k + 1) ELSE done,
                                @, FALSE),
               !.fallback = NoFallback,
               !.active =
                   ActiveAfter(
                       Append(done,
                              [ws[k + 1] EXCEPT
                                 !.cells = SubSeq(@, 1, t),
                                 !.kind = IF Landed(ApplyWrites(file, done),
                                                    ws[k + 1], t)
                                          THEN @ ELSE "head"]),
                       @, cgs.blit_size),
               !.saves = NoSaves]

\* The process stops during cgs.save_missing(cg), between two of its file
\* writes or partway through one.  Another process can open the file after
\* it.
SaveMissingStops ==
    /\ cgs.live
    /\ durable.opens < MaxOpens
    /\ Len(file) <= MaxFile
    /\ data_start(cgs) + cgs.next_write_location <= MaxFile
    /\ \E ws \in {save_missing(cgs, cg).writes} :
          \E k \in 0..(Len(ws) - 1) :
             \E t \in 0..(Len(ws[k + 1].cells) - 1) : StoppedAt(ws, k, t)
    /\ cgs' = NoStorage
    /\ cg' = EmptyGraph
    /\ UNCHANGED <<oplogVars, docVars, structVars>>

\* The process exits between two saves.
Close ==
    /\ cgs.live
    /\ cgs' = NoStorage
    /\ cg' = EmptyGraph
    /\ durable' = [durable EXCEPT !.event = "close"]
    /\ UNCHANGED <<file, oplogVars, docVars, structVars>>

JournalInit ==
    /\ OplogIdle
    /\ DocIdle
    /\ JournalIdle
    /\ StructIdle

JournalNext ==
    \/ \E debug \in BOOLEAN : Open(debug)
    \/ \E name \in JournalNames, linear \in BOOLEAN : Assign(name, linear)
    \/ SaveMissing
    \/ SaveMissingStops
    \/ Close

SpecJournal == JournalInit /\ [][JournalNext]_vars

\* cgs.save_missing(cg) on a device that fails the write of the blit.
SaveMissingIo ==
    /\ cgs.live
    /\ Len(file) <= MaxFile
    /\ data_start(cgs) + cgs.next_write_location <= MaxFile
    /\ Saved(save_missing_io(cgs, cg))
    /\ UNCHANGED <<oplogVars, docVars, structVars>>

\* The journal on a device that may fail a write: the processes open the
\* file, assign, save and exit, and no process stops during a save.
JournalIoNext ==
    \/ \E debug \in BOOLEAN : Open(debug)
    \/ \E name \in JournalNames, linear \in BOOLEAN : Assign(name, linear)
    \/ SaveMissing
    \/ SaveMissingIo
    \/ Close

SpecJournalIo == JournalInit /\ [][JournalIoNext]_vars

\* ------------------------------------------------------------------------
\* Properties of the journal
\* ------------------------------------------------------------------------
\* C8: recovery is crash-safe: wherever the process stopped during a save,
\* between two file writes or partway through a blit, reopening the journal
\* succeeds and gives exactly the graph recorded by the last blit written in
\* full (the one before it when the newest is torn), never a graph decoded
\* from partly written bytes.
CrashSafeRecovery ==
    durable.event = "open" =>
        /\ durable.result = "ok"
        /\ cg \in durable.allowed

\* The cells of blit slot k (0 or 1) of the file as it is now.
SlotCells(k) ==
    Slice(file, CG_HEADER_LENGTH + k * file[CG_HEADER_LENGTH].v,
          file[CG_HEADER_LENGTH].v)

\* What it is for a slot to pass validation: its length is a number, not
\* zero and within the slot, its checksum is the checksum of its body, and
\* the filesize and the counter at the head of the body can be decoded.
SlotValid(k) ==
    LET buf == SlotCells(k)
    IN /\ IsNum(buf[2])
       /\ buf[2].v >= 2
       /\ buf[2].v <= Len(buf) - 2
       /\ buf[1].t = calc_checksum(SubSeq(buf, 3, 2 + buf[2].v)).t
       /\ buf[1] = calc_checksum(SubSeq(buf, 3, 2 + buf[2].v))
       /\ IsNum(buf[3])
       /\ IsNum(buf[4])

\* Slot j holds a strictly greater (filesize, counter) pair than slot k.
SlotGreater(j, k) ==
    LET a == SlotCells(j)
        b == SlotCells(k)
    IN \/ a[3].v > b[3].v
       \/ a[3].v = b[3].v /\ a[4].v > b[4].v

\* C9: on open the active blit is the slot with the greater (filesize,
\* counter) pair among the slots that pass validation; a slot that fails
\* validation is never selected; when neither slot validates the journal
\* opens, with committed filesize 0, instead of rejecting the file.
ActiveBlitIsGreatestValid ==
    durable.event = "open" =>
        LET valid == {k \in {0, 1} : SlotValid(k)}
        IN IF valid = {}
           THEN /\ durable.result = "ok"
                /\ durable.slot = 2
                /\ durable.filesize = 0
                /\ cgs.next_write_location = 0
                /\ cg = EmptyGraph
           ELSE /\ durable.slot \in valid
                /\ \A k \in valid : ~SlotGreater(k, durable.slot)

\* A journal was opened in which one slot holds the start of a newer blit
\* (a greater pair, but it fails validation) and the other slot, which
\* validates, was selected.
ActiveBlitIsGreatestValidWitness ==
    /\ durable.event = "open"
    /\ durable.result = "ok"
    /\ \E k \in {0, 1} :
          /\ SlotValid(k)
          /\ durable.slot = k
          /\ ~SlotValid(1 - k)
          /\ IsNum(SlotCells(1 - k)[3])
          /\ IsNum(SlotCells(1 - k)[4])
          /\ SlotGreater(1 - k, k)

\* C10: the committed filesize of the active blit is the sole authority on
\* what is durable: open decodes only the first `filesize` cells of the data
\* stream (what lies past them is dropped as torn), and the next data write
\* begins at offset `filesize` of the data stream.
FilesizeIsAuthority ==
    /\ durable.event = "open" /\ durable.result = "ok" =>
          /\ cg = open(SubSeq(file, 1, data_start(cgs) + durable.filesize),
                       cgs.debug).cg
          /\ cgs.next_write_location = durable.filesize
          /\ cgs.pos = data_start(cgs) + durable.filesize
    /\ durable.dataAt # 0 - 1 => durable.dataAt = durable.filesize

\* C11: data is appended to the data stream and synced before the blit that
\* names the new filesize is written, so no blit written names a filesize
\* covering data that is not yet synced; and a record is durable only
\* through its blit: a journal that opens gives a graph recorded by a blit
\* whose write was finished or at least begun.
SyncBeforeBlit ==
    /\ ~durable.ahead
    /\ durable.event = "open" /\ durable.result = "ok" =>
          cg \in durable.allowed

\* C29: every blit written has a strictly greater (filesize, counter) pair
\* than every blit written before it in the same journal: a blit written
\* after new data was appended names the new, larger filesize with counter
\* 0, and a blit written with no new data keeps the filesize and carries a
\* counter one higher than the blit before it.
BlitPairsIncrease ==
    /\ durable.written.ordered
    /\ durable.written.stepped

\* C30: when the buffered entries do not fit into a blit (BlitTooLarge),
\* flush appends the buffered parents and agent-assignment records to the
\* data stream at the end of the committed data (offset
\* next_write_location), clears the buffers, and then writes a blit with an
\* empty payload naming the new filesize; reopening afterwards gives the
\* graph that was saved.
FallbackAppendsAtEnd ==
    durable.fallback.taken =>
        /\ durable.fallback.at = durable.fallback.end
        /\ durable.fallback.cleared
        /\ durable.fallback.blit
        /\ durable.event = "open" =>
              /\ durable.result = "ok"
              /\ cg = durable.fallback.graph

\* C31: no file write ever touches the slot holding the most recent valid
\* blit: after open, after every successful blit write, and after a blit
\* write rejected as BlitTooLarge (and the data write that follows it), all
\* cells written to the blit region land in the inactive slot only.
ActiveSlotUntouched == ~durable.active.touched

\* C32: each causal-graph entry is persisted at most once: save_missing
\* called again when the graph has not grown since the save_missing before
\* it writes nothing to the file, and after any sequence of save_missing
\* calls reopening the journal gives the graph that was saved.
EntriesSavedOnce ==
    /\ durable.saves.again => ~durable.saves.wrote
    /\ durable.event = "open" /\ durable.saves.clean =>
          /\ durable.result = "ok"
          /\ cg = durable.saves.graph

\* C33: save_missing returns Ok only if the blit that covers the saved
\* entries was written: an error raised while flushing is returned to the
\* caller.
FlushErrorsReturned ==
    durable.event = "save" /\ durable.saves.returned = "Ok" =>
        durable.saves.flushed

\* A save wrote a blit with no new data, after a blit that named new data:
\* the filesize is that of the data and the counter is above 0.
BlitPairsIncreaseWitness ==
    /\ durable.event = "save"
    /\ durable.written.count = 2
    /\ durable.written.last.filesize > 0
    /\ durable.written.last.counter > 0

\* ------------------------------------------------------------------------
\* Items inserted into one ContentTree
\* ------------------------------------------------------------------------
\* tree.insert_notify(item, cursor_at_content_pos(pos), notify): the record
\* of the tree after it.  cut is whether the cursor was inside an item.
TreeAfter(r, pos, item, c) ==
    [t |-> r.t, cursor |-> r.cursor, n |-> tree.n + 1,
     next_id |-> item.id + item.len, op |-> "insert", at |-> pos,
     cut |-> /\ c.offset > 0
             /\ c.offset < tree.t.leaves[c.leaf_idx].children[c.elem_idx].len,
     leaves_before |-> Len(tree.t.leaves),
     nodes_before |-> Len(tree.t.nodes)]

InsertItem(pos, item, c) ==
    /\ c.elem_idx > 0
    /\ tree' = TreeAfter(insert_notify(tree.t, item, c), pos, item, c)
    /\ UNCHANGED <<sub, wmap, oplogVars, docVars, journalVars>>

\* An item, activated or not, inserted at any content position.
TreeInsert(act, pos) ==
    /\ tree.t.err = ""
    /\ tree.n < MaxSplices
    /\ InsertItem(pos,
                [id |-> tree.next_id, len |-> ItemLen, act |-> act,
                 exists |-> TRUE],
                cursor_at_content_pos(tree.t, pos))

\* An item inserted at the end; one item in two is activated.
TreeAppend ==
    /\ tree.t.err = ""
    /\ tree.n >= MaxSplices
    /\ tree.n < MaxTreeItems
    /\ InsertItem(tree.t.total_len.end,
                [id |-> tree.next_id, len |-> ItemLen,
                 act |-> (tree.n % 2 = 0), exists |-> TRUE],
                cursor_at_content_pos(tree.t, tree.t.total_len.end))

TreeInit ==
    /\ OplogIdle
    /\ DocIdle
    /\ JournalIdle
    /\ StructIdle

TreeNext ==
    \/ \E act \in BOOLEAN, pos \in 0..(MaxSplices * ItemLen) :
          pos <= tree.t.total_len.end /\ TreeInsert(act, pos)
    \/ TreeAppend

SpecTree == TreeInit /\ [][TreeNext]_vars

\* The content lengths of the items below node or leaf idx, h levels below
\* the root, summed.
RECURSIVE SubtreeSize(_, _, _)
SubtreeSize(T, idx, h) ==
    IF h >= T.height THEN SliceSize(T.leaves[idx].children)
    ELSE PairSum([i \in 1..NODE_CHILDREN |->
            IF T.nodes[idx].child_indexes[i] = 0 THEN ZeroPair
            ELSE SubtreeSize(T, T.nodes[idx].child_indexes[i], h + 1)])

\* The number of levels between node idx and the root.
RECURSIVE Depth(_, _)
Depth(T, idx) ==
    IF T.nodes[idx].parent = 0 THEN 0 ELSE 1 + Depth(T, T.nodes[idx].parent)

\* The items of the tree, each with the leaf that holds it.
ItemsIn(T) ==
    {[leaf |-> l, item |-> T.leaves[l].children[i]] :
        l \in 1..Len(T.leaves), i \in 1..LEAF_CHILDREN}

HeldItems(T) == {e \in ItemsIn(T) : e.item.exists}

\* C22: after every insert that returned, the side index names, for the
\* first LV of every item of the tree, the leaf that holds the item.
IndexAgreesWithTree ==
    (tree.op = "insert" /\ tree.t.err = "") =>
        \A e \in HeldItems(tree.t) :
            /\ e.item.id \in DOMAIN tree.t.index
            /\ tree.t.index[e.item.id] = e.leaf

\* C28: after every insert_notify, the width an internal node records for
\* a child, cur and end, is the sum of the content lengths of the items
\* below that child, and total_len is the sum over all items.
WidthsAreSums ==
    tree.op = "insert" =>
        /\ tree.t.total_len = SubtreeSize(tree.t, tree.t.root, 0)
        /\ \A n \in 1..Len(tree.t.nodes), i \in 1..NODE_CHILDREN :
              tree.t.nodes[n].child_indexes[i] # 0 =>
                  tree.t.nodes[n].child_width[i] =
                      SubtreeSize(tree.t, tree.t.nodes[n].child_indexes[i],
                                  Depth(tree.t, n) + 1)

\* ------------------------------------------------------------------------
\* Subgraphs of one causal graph
\* ------------------------------------------------------------------------
\* One more operation on top of any version of the history.
SubEdit(F) ==
    /\ ~sub.made
    /\ Len(oplog.ops) < MaxSubOps
    /\ oplog' = AddOp(oplog, "a", F, "Ins", 0)
    /\ UNCHANGED <<branch, typing, planned, logs, last, journalVars, tree,
                   sub, wmap>>

\* check_subgraph: what g.subgraph(filter, frontier) and
\* g.project_onto_subgraph(filter, frontier) return.
SubRecord(filter, parents, s, projection) ==
    [made |-> TRUE, filter |-> filter, parents |-> parents,
     entries |-> s.entries, frontier |-> s.frontier,
     projection |-> projection]

TakeSubgraph(filter, parents) ==
    /\ ~sub.made
    /\ sub' = SubRecord(filter, parents,
                  subgraph_raw(oplog, filter, parents),
                  project_onto_subgraph_raw(oplog, filter, parents))
    /\ UNCHANGED <<oplogVars, docVars, journalVars, tree, wmap>>

\* The subgraph is dropped.
DropSub ==
    /\ sub.made
    /\ sub' = NoSub
    /\ UNCHANGED <<oplogVars, docVars, journalVars, tree, wmap>>

SubInit ==
    /\ OplogIdle
    /\ DocIdle
    /\ JournalIdle
    /\ StructIdle

SubNext ==
    \/ /\ ~sub.made
       /\ \E F \in Frontiers(oplog) : SubEdit(F)
    \/ /\ ~sub.made
       /\ \E filter \in SUBSET LVs(oplog), parents \in Frontiers(oplog) :
             TakeSubgraph(filter, parents)
    \/ DropSub

SpecSub == SubInit /\ [][SubNext]_vars

\* The LVs of the spans of a list of graph entries.
SpanLvs(entries) ==
    UNION {entries[i].span.start..(entries[i].span.end - 1) :
              i \in 1..Len(entries)}

\* C23: the LVs of the spans of the graph subgraph returns are the versions
\* in the history of the frontier that the filter allows, no more and no
\* fewer.
SubgraphIsFilteredHistory ==
    sub.made => SpanLvs(sub.entries) = Anc(oplog, sub.parents) \cap sub.filter

\* A subgraph of a branching history, taken from a frontier of two heads
\* with a filter of two spans: some of the history is filtered out, some
\* of the filter is not in the history, and two filter spans lie within
\* one run of the graph.
SubgraphIsFilteredHistoryWitness ==
    /\ sub.made
    /\ Cardinality(sub.parents) = 2
    /\ Len(FilterRuns(sub.filter)) = 2
    /\ Anc(oplog, sub.parents) \ sub.filter # {}
    /\ sub.filter \ Anc(oplog, sub.parents) # {}
    /\ Len(sub.entries) >= 2
    /\ \E i, j \in 1..Len(sub.entries) :
          /\ i # j
          /\ TxnStart(oplog, sub.entries[i].span.start) =
                TxnStart(oplog, sub.entries[j].span.start)
    /\ SpanLvs(sub.entries) = Anc(oplog, sub.parents) \cap sub.filter

\* C24: the frontier subgraph returns is the frontier
\* project_onto_subgraph returns for the same filter and frontier.
SubgraphFrontierIsProjection ==
    sub.made => sub.frontier = sub.projection

\* A frontier of two heads whose projection is one version that is
\* neither of them: both heads are filtered out and what they project to
\* is one below the other.
SubgraphFrontierIsProjectionWitness ==
    /\ sub.made
    /\ Cardinality(sub.parents) = 2
    /\ sub.parents \cap sub.filter = {}
    /\ Len(sub.projection) = 1
    /\ Cardinality(sub.filter) >= 2
    /\ sub.frontier = sub.projection

\* C25: the parents of every entry of the graph subgraph returns are LVs
\* the filter allows, without duplicates, none of them an ancestor of
\* another.
SubgraphParentsClean ==
    sub.made =>
        \A i \in 1..Len(sub.entries) :
            LET ps == sub.entries[i].parents
            IN /\ Range(ps) \subseteq sub.filter
               /\ Cardinality(Range(ps)) = Len(ps)
               /\ Dominators(oplog, Range(ps)) = Range(ps)

\* An entry of a subgraph with two parents that are not the parents its
\* first LV has in the graph: an edge was shortcut across a region the
\* filter removes.
SubgraphParentsCleanWitness ==
    /\ sub.made
    /\ \E i \in 1..Len(sub.entries) :
          LET ps == sub.entries[i].parents
          IN /\ Len(ps) = 2
             /\ Range(ps) # oplog.ops[sub.entries[i].span.start].parents
             /\ Range(ps) \subseteq sub.filter
             /\ Dominators(oplog, Range(ps)) = Range(ps)

\* The parents of the LV lv in a list of graph entries: the LV before it
\* within a span, the parents of the entry at the start of one.
ParentsIn(entries, lv) ==
    LET at == {i \in 1..Len(entries) :
                  entries[i].span.start <= lv /\ lv < entries[i].span.end}
    IN IF at = {} THEN {}
       ELSE LET e == entries[CHOOSE i \in at : TRUE]
            IN IF lv > e.span.start THEN {lv - 1} ELSE Range(e.parents)

\* The LVs at or below the set F of LVs in a list of graph entries.
RECURSIVE AncIn(_, _)
AncIn(entries, F) ==
    IF F = {} THEN {}
    ELSE LET m == Max(F)
         IN {m} \cup AncIn(entries, (F \ {m}) \cup ParentsIn(entries, m))

\* C39: the subgraph keeps the ancestry of the graph: of any two LVs the
\* filter allows that are in the history of the frontier, one is an
\* ancestor of the other in the graph subgraph returns if and only if it is
\* in the graph the subgraph was taken of.
SubgraphKeepsAncestry ==
    sub.made =>
        \A x, y \in Anc(oplog, sub.parents) \cap sub.filter :
            x \in AncIn(sub.entries, {y}) <=> x \in Anc(oplog, {y})

\* A subgraph with an LV that has no parent in the filter but an ancestor
\* further up, beside an LV concurrent with both.
SubgraphKeepsAncestryWitness ==
    /\ sub.made
    /\ \E x, y, z \in Anc(oplog, sub.parents) \cap sub.filter :
          /\ x < y
          /\ oplog.ops[y].parents \cap sub.filter = {}
          /\ x \in Anc(oplog, {y})
          /\ x \in AncIn(sub.entries, {y})
          /\ z \notin Anc(oplog, {y}) /\ y \notin Anc(oplog, {z})
          /\ z \notin AncIn(sub.entries, {y}) /\ y \notin AncIn(sub.entries, {z})

\* ------------------------------------------------------------------------
\* Two oplogs built apart and compared
\* ------------------------------------------------------------------------
\* get_or_create_agent_id: an agent is registered before it has any
\* operation.
EqAgent(r, name) ==
    /\ AgentId(logs[r], name) = 0
    /\ logs' = [logs EXCEPT ![r] = GetOrCreateAgent(@, name)]
    /\ UNCHANGED <<last, docVars, journalVars, structVars>>

\* add_insert_at / add_delete_at: one operation under any agent name, at
\* any version of the log's history and a position of the document at that
\* version.
EqOp(r, name) ==
    /\ Len(logs[r].ops) < MaxEqOps
    /\ \E F \in Frontiers(logs[r]), kind \in {"Ins", "Del"},
          pos \in 0..MaxEqPos :
         LET n == Len(Checkout(logs[r], F))
         IN /\ IF kind = "Ins" THEN pos <= n ELSE pos < n
            /\ logs' = [logs EXCEPT ![r] = AddOp(@, name, F, kind, pos)]
    /\ UNCHANGED <<last, docVars, journalVars, structVars>>

EqNext ==
    \/ \E r \in Replicas, name \in Range(AgentNames) : EqAgent(r, name)
    \/ \E r \in Replicas, name \in Range(AgentNames) : EqOp(r, name)

SpecEq == OplogInit /\ [][EqNext]_vars

\* What an oplog holds, whatever its LVs and agent ids: each operation
\* with its agent name, seq, the names and seqs of its parents, and its
\* payload.
ContentOfLog(log) ==
    {[name |-> NameOf(log, l), seq |-> log.ops[l].seq,
      parents |-> {<<NameOf(log, p), log.ops[p].seq>> :
                      p \in log.ops[l].parents},
      kind |-> log.ops[l].kind, pos |-> log.ops[l].pos] : l \in LVs(log)}

MapClients == <<"a", "b", "c">>

\* The sequence numbers seq_delta is called with end at or below MaxSeq.
MaxSeq == 2

MapAgents == 0..(Len(MapClients) - 1)

\* (None, 0)
NoMapped == [mapped |-> -1, seq |-> 0]

\* agent_map: vec![(None, 0); client_data.len()]
with_capacity_from(client_data) ==
    [agent_map |-> [i \in 1..Len(client_data) |-> NoMapped],
     next_mapped_agent |-> 0]

\* agent_map grown with (None, 0) until its length is cap.
ensure_capacity(m, cap) ==
    IF cap > Len(m.agent_map)
    THEN [m EXCEPT
             !.agent_map = @ \o [i \in 1..(cap - Len(@)) |-> NoMapped]]
    ELSE m

\* map_and_store on the map and id chunk of w. The loop at its head is
\* while self.agent_map.len() < agent; self.agent_map[agent] after it
\* panics when agent_map is no longer than agent.
map_and_store(w, agent, client_data) ==
    LET m == ensure_capacity(w.m, agent)
    IN IF agent >= Len(m.agent_map)
       THEN [m |-> m, ids_out |-> w.ids_out, returned |-> 0,
             err |-> "panic"]
       ELSE IF m.agent_map[agent + 1].mapped = NoMapped.mapped
       THEN [m |-> [m EXCEPT
                       !.agent_map[agent + 1] =
                           [mapped |-> m.next_mapped_agent, seq |-> 0],
                       !.next_mapped_agent = @ + 1],
             ids_out |-> Append(w.ids_out, client_data[agent + 1]),
             returned |-> m.next_mapped_agent, err |-> ""]
       ELSE [m |-> m, ids_out |-> w.ids_out,
             returned |-> m.agent_map[agent + 1].mapped, err |-> ""]

\* seq_delta: the distance from the last sequence number of the agent to
\* the start of span; the end of span is kept when persist is set.
seq_delta(w, agent, span, persist) ==
    LET m == ensure_capacity(w.m, agent + 1)
    IN [m |-> IF persist
              THEN [m EXCEPT !.agent_map[agent + 1].seq = span.end]
              ELSE m,
        ids_out |-> w.ids_out,
        returned |-> span.start - m.agent_map[agent + 1].seq,
        err |-> ""]

\* wmap after a call: firsts lists the agents in the order of their first
\* map_and_store that returned.
AfterCall(op, agent, r) ==
    [m |-> r.m, ids_out |-> r.ids_out, err |-> r.err,
     firsts |-> IF op = "map_and_store" /\ r.err = ""
                      /\ agent \notin Range(wmap.firsts)
                THEN Append(wmap.firsts, agent) ELSE wmap.firsts,
     call |-> [op |-> op, agent |-> agent, returned |-> r.returned,
               ids_before |-> wmap.ids_out, firsts_before |-> wmap.firsts]]

MapIdle == UNCHANGED <<tree, sub, oplogVars, docVars, journalVars>>

\* let mut map = WriteMap::new();
MapNew ==
    /\ wmap # MapStart(WriteMapNew)
    /\ wmap' = MapStart(WriteMapNew)
    /\ MapIdle

\* let mut map = WriteMap::with_capacity_from(client_data);
MapWithCapacityFrom ==
    /\ wmap # MapStart(with_capacity_from(MapClients))
    /\ wmap' = MapStart(with_capacity_from(MapClients))
    /\ MapIdle

\* map.map_and_store(agent, client_data, &mut ids_out)
MapAndStore(agent) ==
    /\ wmap.err = ""
    /\ wmap' = AfterCall("map_and_store", agent,
                         map_and_store(wmap, agent, MapClients))
    /\ MapIdle

\* map.seq_delta(agent, span, persist)
MapSeqDelta(agent, span, persist) ==
    /\ wmap.err = ""
    /\ wmap' = AfterCall("seq_delta", agent,
                         seq_delta(wmap, agent, span, persist))
    /\ MapIdle

MapInit ==
    /\ OplogIdle
    /\ DocIdle
    /\ JournalIdle
    /\ StructIdle

MapNext ==
    \/ MapNew
    \/ MapWithCapacityFrom
    \/ \E agent \in MapAgents : MapAndStore(agent)
    \/ \E agent \in MapAgents, start \in 0..MaxSeq, end \in 1..MaxSeq, persist \in BOOLEAN :
          start < end /\ MapSeqDelta(agent, [start |-> start, end |-> end], persist)

SpecMap == MapInit /\ [][MapNext]_vars

\* The place of agent in the list of first calls.
FirstAt(firsts, agent) == CHOOSE i \in 1..Len(firsts) : firsts[i] = agent

\* C40: map_and_store does not fail for a local agent of client_data, on
\* a map from WriteMap::new() as on any other. The first call for an agent
\* returns the next file id not yet given out (0, 1, 2, ... in the order of
\* first calls) and appends the name of the agent to the id chunk once;
\* a later call for the agent returns the same file id and appends nothing.
MapAndStoreAssignsOnce ==
    wmap.call.op = "map_and_store" =>
        /\ wmap.err = ""
        /\ IF wmap.call.agent \in Range(wmap.call.firsts_before)
           THEN /\ wmap.call.returned =
                      FirstAt(wmap.call.firsts_before, wmap.call.agent) - 1
                /\ wmap.ids_out = wmap.call.ids_before
           ELSE /\ wmap.call.returned = Len(wmap.call.firsts_before)
                /\ wmap.ids_out =
                      Append(wmap.call.ids_before,
                             MapClients[wmap.call.agent + 1])

====
